---- MODULE Spec2Model ----
(***************************************************************************)
(* KeyvCRDT: a conflict-resolution layer in front of an ordered list of    *)
(* key-value stores (multi-store implementation), with the single-store    *)
(* implementation's merge being the same code.                             *)
(*                                                                         *)
(* Representation                                                          *)
(*   string (deviceId)   a sequence of code units (naturals); JS compares  *)
(*                       strings code unit by code unit                    *)
(*   CRDTField           a record [v, t, d] or [v, t, d, c]                *)
(*   CounterValue        a function from deviceIds to numbers              *)
(*   CRDTDocument        a function from a set of field names to fields    *)
(*   T | undefined       a sequence of length <= 1 (<<>> is undefined)     *)
(*   array               a sequence (order and duplicates are kept)        *)
(***************************************************************************)
EXTENDS Integers, Sequences, FiniteSets, TLC

\* ------------------------------------------------------------------ bounds
\* largest wall-clock value Date.now() returns
MaxTime == 2
\* numeric values written by callers are 1..MaxVal
MaxVal == 2
\* longest array a caller writes to a 'union' field
MaxLen == 2
\* calls of mutating operations started in one behaviour
MaxOps == 3
\* the same, in the behaviours in which calls overlap
MaxRacing == 2
\* the same, in the behaviours in which writes to a store are rejected
MaxFailing == 2
\* most stores passed to the constructor
MaxStores == 3

\* --------------------------------------------------------------- constants
TOMBSTONE_KEY == "_deleted"

Undefined == <<>>
Some(x) == <<x>>
IsDefined(o) == o # <<>>
Val(o) == o[1]

\* the strategies a MergeConfig may name, and a config entry left undefined
BuiltinStrategy == {"lww", "max", "min", "counter", "union"}
CustomStrategy == "custom"
NoStrategy == "undefined"

\* deviceIds "a", "ab", "b" as code-unit sequences: "a" < "ab" < "b"
IdA == <<1>>
IdAB == <<1, 2>>
IdB == <<2>>
DeviceIds == {IdA, IdAB, IdB}

VARIABLES
  mergeConfig,   \* this.mergeConfig: field name -> strategy (or "undefined")
  storesOf,      \* this.stores of every instance: a sequence of store names
  data,          \* contents of every store: store name -> (key -> document)
  clock,         \* the wall clock of every instance's device
  call,          \* the state of every call in progress, one per call slot
  ops,           \* number of mutating calls started
  history,       \* observer: the mutating calls completed, in completion order
  seen,          \* observer: what the reads of each call in progress returned
  docA, docB, docC,   \* inputs of the merge functions; docA also holds the
                 \* stores passed to a constructor call
  out            \* results of the merge functions on docA, docB, docC, and
                 \* of the constructor call

vars == <<mergeConfig, storesOf, data, clock, call, ops, history, seen,
          docA, docB, docC, out>>

\* ------------------------------------------------------- pure helpers (JS)
\* a faulty variant of Math.max: the smaller of the two
Smaller(a, b) == IF a <= b THEN a ELSE b

Max(a, b) == IF a >= b THEN a ELSE b
Min(a, b) == IF a <= b THEN a ELSE b

\* JS string comparison a > b: the first differing code unit decides; a
\* proper prefix is the smaller string.
RECURSIVE StrGreater(_, _)
StrGreater(a, b) ==
  IF a = <<>> THEN FALSE
  ELSE IF b = <<>> THEN TRUE
  ELSE IF Head(a) # Head(b) THEN Head(a) > Head(b)
  ELSE StrGreater(Tail(a), Tail(b))

\* Object.values(c).reduce((a, b) => a + b, 0)
RECURSIVE SumValues(_)
SumValues(c) ==
  IF DOMAIN c = {} THEN 0
  ELSE LET k == CHOOSE x \in DOMAIN c : TRUE
       IN c[k] + SumValues([x \in DOMAIN c \ {k} |-> c[x]])

\* [...new Set(arr)]: every element once, at the place of its first occurrence
RECURSIVE Dedupe(_)
Dedupe(arr) ==
  IF arr = <<>> THEN <<>>
  ELSE LET init == Dedupe(SubSeq(arr, 1, Len(arr) - 1))
           last == arr[Len(arr)]
       IN IF \E i \in 1..Len(init) : init[i] = last THEN init
          ELSE Append(init, last)

Elements(arr) == {arr[i] : i \in 1..Len(arr)}

\* the custom merge function of the tests: first writer wins
FirstWriterWins(lv, rv, lm, rm) ==
  IF lm.timestamp <= rm.timestamp THEN lv ELSE rv

\* this.mergeConfig[key] || 'lww'
StrategyOf(key) ==
  IF key \in DOMAIN mergeConfig /\ mergeConfig[key] # NoStrategy
  THEN mergeConfig[key] ELSE "lww"

\* (plain) strategy read by set(): this.mergeConfig[field]
ConfiguredStrategy(key) ==
  IF key \in DOMAIN mergeConfig THEN mergeConfig[key] ELSE NoStrategy

HasC(f) == "c" \in DOMAIN f

\* ---------------------------------------------------------------- merging
\* a faulty variant of the last-write-wins choice: no deviceId tie-break, the
\* local version is kept on equal timestamps
LwwNoTieBreak(local, remote) == IF local.t >= remote.t THEN local ELSE remote

\* lww: larger timestamp, then larger deviceId; the remote side on a full tie
LwwPick(local, remote) ==
  IF local.t > remote.t THEN local
  ELSE IF remote.t > local.t THEN remote
  ELSE IF StrGreater(local.d, remote.d) THEN local ELSE remote
\* a faulty variant of the merged timestamp: the local one instead of the later
MergedTLocal(local, remote) == local.t

\* t: Math.max(local.t, remote.t)
MergedT(local, remote) == Max(local.t, remote.t)

\* a faulty variant of the merged deviceId: always the one of the remote side
MergedDRemote(local, remote) == remote.d

\* d: local.t >= remote.t ? local.d : remote.d
MergedD(local, remote) == IF local.t >= remote.t THEN local.d ELSE remote.d

\* a faulty variant of the counter merge: the local values replace the remote
\* ones instead of the larger one being kept
MergeCounterOverwriting(local, remote) ==
  LET rc == IF HasC(remote) THEN remote.c ELSE <<>>
      lc == IF HasC(local) THEN local.c ELSE <<>>
  IN [did \in DOMAIN rc \cup DOMAIN lc |->
        IF did \in DOMAIN lc THEN lc[did] ELSE rc[did]]

\* a faulty variant of the counter merge: the per-device values are added up
\* instead of the larger one being kept
MergeCounterAdding(local, remote) ==
  LET rc == IF HasC(remote) THEN remote.c ELSE <<>>
      lc == IF HasC(local) THEN local.c ELSE <<>>
  IN [did \in DOMAIN rc \cup DOMAIN lc |->
        (IF did \in DOMAIN lc THEN lc[did] ELSE 0)
        + (IF did \in DOMAIN rc THEN rc[did] ELSE 0)]

\* the per-device maximum of two counters
\*   merged = remote.c ? {...remote.c} : {};
\*   for did in local.c: merged[did] = Math.max(local.c[did], merged[did] ?? 0)
MergeCounter(local, remote) ==
  LET rc == IF HasC(remote) THEN remote.c ELSE <<>>
      lc == IF HasC(local) THEN local.c ELSE <<>>
  IN [did \in DOMAIN rc \cup DOMAIN lc |->
        IF did \in DOMAIN lc
        THEN Max(lc[did], IF did \in DOMAIN rc THEN rc[did] ELSE 0)
        ELSE rc[did]]

\* a faulty variant of the tombstone's merge: by the strategy the merge
\* configuration names for the tombstone field (true wins unless 'lww')
MergeTombstoneByConfig(local, remote) ==
  IF StrategyOf(TOMBSTONE_KEY) = "lww" THEN LwwPick(local, remote)
  ELSE [v |-> local.v \/ remote.v, t |-> MergedT(local, remote), d |-> MergedD(local, remote)]

\* a faulty variant of the tombstone's merge: with timestamp and deviceId
\* both equal, the local side instead of the remote one
MergeTombstoneLocalOnTie(local, remote) ==
  IF local.t > remote.t THEN local
  ELSE IF remote.t > local.t THEN remote
  ELSE IF StrGreater(remote.d, local.d) THEN remote ELSE local

\* "Tombstone always uses LWW": this.mergeConfig is not read
MergeTombstone(local, remote) == LwwPick(local, remote)

\* mergeField with both sides present
MergePresent(key, local, remote) ==
  IF key = TOMBSTONE_KEY THEN MergeTombstone(local, remote)
  ELSE LET strategy == StrategyOf(key)
           lm == [timestamp |-> local.t, deviceId |-> local.d]
           rm == [timestamp |-> remote.t, deviceId |-> remote.d]
           t == MergedT(local, remote)
           d == MergedD(local, remote)
       IN CASE strategy = "lww" -> LwwPick(local, remote)
            [] strategy = "max" -> [v |-> Max(local.v, remote.v), t |-> t, d |-> d]
            [] strategy = "min" -> [v |-> Min(local.v, remote.v), t |-> t, d |-> d]
            [] strategy = "counter" ->
                 LET merged == MergeCounter(local, remote)
                 IN [v |-> SumValues(merged), t |-> t, d |-> d, c |-> merged]
            [] strategy = "union" ->
                 [v |-> Dedupe(local.v \o remote.v), t |-> t, d |-> d]
            [] strategy = CustomStrategy ->
                 [v |-> FirstWriterWins(local.v, remote.v, lm, rm), t |-> t, d |-> d]
            [] OTHER -> IF local.t >= remote.t THEN local ELSE remote

\* mergeField(key, local?, remote?)
MergeField(key, local, remote) ==
  IF ~IsDefined(local) THEN remote
  ELSE IF ~IsDefined(remote) THEN local
  ELSE Some(MergePresent(key, Val(local), Val(remote)))

\* doc[key], undefined when the document has no such property
FieldOf(doc, key) == IF key \in DOMAIN doc THEN Some(doc[key]) ELSE Undefined

\* mergeDocuments(local, remote)
MergeDocuments(local, remote) ==
  LET allKeys == DOMAIN local \cup DOMAIN remote
      merged(key) == MergeField(key, FieldOf(local, key), FieldOf(remote, key))
  IN [key \in {k \in allKeys : IsDefined(merged(k))} |-> Val(merged(key))]

\* a faulty variant of the projection: the stored value of every field, the
\* per-device counters not being looked at
ToPlainObjectStoredValues(doc) ==
  [key \in DOMAIN doc \ {TOMBSTONE_KEY} |-> doc[key].v]

\* toPlainObject(doc)
ToPlainObject(doc) ==
  [key \in DOMAIN doc \ {TOMBSTONE_KEY} |->
     IF HasC(doc[key]) THEN SumValues(doc[key].c) ELSE doc[key].v]


\* ------------------------------------------------------------ the instances
\* two devices, as in the multi-device tests: 'mobile' and 'pc'
Instances == {"mobile", "pc"}
DeviceIdOf(i) == IF i = "mobile" THEN IdAB ELSE IdB

StoreNames == {"mobileCache", "pcCache", "sharedRemote"}
Keys == {"key"}
Calls == {"c1", "c2"}

\* new KeyvCRDT(deviceId, mergeConfig, cache, sharedRemote): own cache first,
\* the shared source of truth last
CachedStores == [mobile |-> <<"mobileCache", "sharedRemote">>,
                 pc |-> <<"pcCache", "sharedRemote">>]
\* new KeyvCRDT(deviceId, mergeConfig, store): both devices on one store
SharedStore == [mobile |-> <<"sharedRemote">>, pc |-> <<"sharedRemote">>]
\* three tiers for one device: memory -> disk -> network
ThreeTier == [mobile |-> <<"mobileCache", "pcCache", "sharedRemote">>,
              pc |-> <<"sharedRemote">>]
\* the same three tiers, the other device on the disk and network tiers
ThreeTierDisk == [mobile |-> <<"mobileCache", "pcCache", "sharedRemote">>,
                  pc |-> <<"pcCache", "sharedRemote">>]

\* merge configurations over one field, one per strategy
OneFieldConfigs ==
  { [name |-> "lww"], [note |-> NoStrategy], [score |-> "max"],
    [bestTime |-> "min"], [coins |-> "counter"], [tags |-> "union"],
    [value |-> CustomStrategy] }

\* ----------------------------------------------------------- caller inputs
Numbers == 1..MaxVal
RECURSIVE ArraysUpTo(_)
ArraysUpTo(n) ==
  IF n = 0 THEN {<<>>}
  ELSE LET shorter == ArraysUpTo(n - 1)
       IN shorter \cup {Append(a, x) : a \in {b \in shorter : Len(b) = n - 1}, x \in Numbers}
Arrays == ArraysUpTo(MaxLen)

ValuesFor(strategy) == IF strategy = "union" THEN Arrays ELSE Numbers

\* every Partial<T> over the fields fs: a value for each of them
RECURSIVE UpdatesOver(_)
UpdatesOver(fs) ==
  IF fs = {} THEN {<<>>}
  ELSE LET f == CHOOSE x \in fs : TRUE
       IN { [x \in DOMAIN u \cup {f} |-> IF x = f THEN v ELSE u[x]] :
              u \in UpdatesOver(fs \ {f}), v \in ValuesFor(StrategyOf(f)) }

\* every Partial<T> a caller may pass to set(): a value for some of the fields
Updates == UNION { UpdatesOver(fs) : fs \in SUBSET DOMAIN mergeConfig }

\* ------------------------------------------------------------ store access
\* a faulty variant of store.get: an empty record instead of undefined for a
\* key the store does not hold
StoreGetEmptyRecord(s, k) == IF k \in DOMAIN data[s] THEN Some(data[s][k]) ELSE Some(<<>>)

\* store.get(key)
StoreGet(s, k) == IF k \in DOMAIN data[s] THEN Some(data[s][k]) ELSE Undefined
\* a faulty variant of store.set: given a record whose tombstone is true, the
\* store drops the key
PutDroppingDeleted(contents, k, doc) ==
  IF TOMBSTONE_KEY \in DOMAIN doc /\ doc[TOMBSTONE_KEY].v = TRUE
  THEN [x \in DOMAIN contents \ {k} |-> contents[x]]
  ELSE [x \in DOMAIN contents \cup {k} |-> IF x = k THEN doc ELSE contents[x]]

\* a faulty variant of store.set: a store that merges what it is given into
\* what it holds instead of replacing it
PutMerging(contents, k, doc) ==
  [x \in DOMAIN contents \cup {k} |->
     IF x # k THEN contents[x]
     ELSE IF k \in DOMAIN contents THEN MergeDocuments(contents[k], doc) ELSE doc]

\* the contents of a store after store.set(key, doc)
Put(contents, k, doc) ==
  [x \in DOMAIN contents \cup {k} |-> IF x = k THEN doc ELSE contents[x]]

\* a faulty variant of store.delete: the store keeps the key
RemoveNothing(contents, k) == contents

\* the contents of a store after store.delete(key)
Remove(contents, k) == [x \in DOMAIN contents \ {k} |-> contents[x]]

NumStores(i) == Len(storesOf[i])
\* this.stores[j], j counted from 0 as in the source
StoreAt(i, j) == storesOf[i][j + 1]

\* ---------------------------------------------------------------- set()
\* a faulty variant of the fields set() builds: the tombstone is not cleared
NewFieldsKeepingTombstone(i, timestamp, updates) ==
  [key \in DOMAIN updates |->
     IF ConfiguredStrategy(key) = "counter"
     THEN [v |-> updates[key], t |-> timestamp, d |-> DeviceIdOf(i),
           c |-> (DeviceIdOf(i) :> updates[key])]
     ELSE [v |-> updates[key], t |-> timestamp, d |-> DeviceIdOf(i)]]

\* the CRDT fields set() builds for its updates, tombstone cleared
NewFields(i, timestamp, updates) ==
  [key \in {TOMBSTONE_KEY} \cup DOMAIN updates |->
     IF key = TOMBSTONE_KEY
     THEN [v |-> FALSE, t |-> timestamp, d |-> DeviceIdOf(i)]
     ELSE IF ConfiguredStrategy(key) = "counter"
     THEN [v |-> updates[key], t |-> timestamp, d |-> DeviceIdOf(i),
           c |-> (DeviceIdOf(i) :> updates[key])]
     ELSE [v |-> updates[key], t |-> timestamp, d |-> DeviceIdOf(i)]]

\* a faulty variant of the accumulation: the document read last replaces
\* what was merged before
AccumulateLatest(merged, doc) == Some(doc)

\* a faulty variant of the accumulation: the first document read is kept and
\* the later ones are not merged in
AccumulateKeepFirst(merged, doc) == IF IsDefined(merged) THEN merged ELSE Some(doc)

\* merged ? mergeDocuments(merged, doc) : doc      (doc is not undefined)
Accumulate(merged, doc) ==
  IF IsDefined(merged) THEN Some(MergeDocuments(Val(merged), doc)) ELSE Some(doc)

\* a faulty variant of the tombstone record: a stored tombstone with a larger
\* timestamp is kept
TombstonedUnlessNewer(existing, i, timestamp) ==
  [key \in DOMAIN existing \cup {TOMBSTONE_KEY} |->
     IF key = TOMBSTONE_KEY
          /\ ~(key \in DOMAIN existing /\ existing[key].t > timestamp)
     THEN [v |-> TRUE, t |-> timestamp, d |-> DeviceIdOf(i)]
     ELSE existing[key]]

\* a faulty variant of the tombstone record: the other fields are dropped
TombstoneOnly(existing, i, timestamp) ==
  [key \in {TOMBSTONE_KEY} |-> [v |-> TRUE, t |-> timestamp, d |-> DeviceIdOf(i)]]

\* delete(): { ...existing, [TOMBSTONE_KEY]: { v: true, t: timestamp, d } }
Tombstoned(existing, i, timestamp) ==
  [key \in DOMAIN existing \cup {TOMBSTONE_KEY} |->
     IF key = TOMBSTONE_KEY
     THEN [v |-> TRUE, t |-> timestamp, d |-> DeviceIdOf(i)]
     ELSE existing[key]]

\* merged[TOMBSTONE_KEY]?.v === true
IsTombstoned(doc) == TOMBSTONE_KEY \in DOMAIN doc /\ doc[TOMBSTONE_KEY].v = TRUE

\* a faulty variant of what get() returns: the tombstone is not looked at
VisibleAlways(doc) == Some(ToPlainObject(doc))

\* what get() returns for a merged document: undefined when tombstoned
Visible(doc) == IF IsTombstoned(doc) THEN Undefined ELSE Some(ToPlainObject(doc))


\* ------------------------------------------------------------------ calls
\* A call slot: pc is "idle", "reading" (in the loop over this.stores, about
\* to await stores[idx].get), "writing" (awaiting Promise.all over the
\* stores in pending), "done" (returned: ret / retBool hold the result),
\* "rejected" (Promise.all has rejected and the call has thrown error to its
\* caller, while the writes in pending are still in flight) or "failed"
\* (thrown, and no write is in flight any more).
\* merged is the loop's accumulator (merged / existing in the source) and,
\* once the loop is over, the document being written. rejected holds the
\* indexes of the stores whose store.set has rejected, error the store whose
\* rejection came first: the one Promise.all rejects with.
IdleCall ==
  [pc |-> "idle", op |-> "none", inst |-> "mobile", key |-> "key",
   timestamp |-> 0, updates |-> <<>>, merged |-> Undefined, idx |-> 0,
   cacheHitIndex |-> -1, pending |-> {}, ret |-> Undefined, retBool |-> FALSE,
   rejected |-> {}, error |-> Undefined]

Free(c) == call[c].pc \in {"idle", "done", "failed"}
Reading(c, op) == call[c].pc = "reading" /\ call[c].op = op
Writing(c, op) == call[c].pc = "writing" /\ call[c].op = op
\* a faulty variant of the store read: always the last one, the source of
\* truth
NextStoreLast(c) == StoreAt(call[c].inst, NumStores(call[c].inst) - 1)

\* the store the call's next read goes to
NextStore(c) == StoreAt(call[c].inst, call[c].idx)
\* a faulty variant of the end of the read loop: after the first store
LastReadFirst(c) == call[c].idx = 0

\* the read about to be made is the one of the last store
LastRead(c) == call[c].idx = NumStores(call[c].inst) - 1

\* a faulty variant of the stores written: every store but the last
CacheIndexes(i) == 0..(NumStores(i) - 2)

\* the indexes of this.stores
AllIndexes(i) == 0..(NumStores(i) - 1)

Started(c, op, i, k) ==
  [IdleCall EXCEPT !.pc = "reading", !.op = op, !.inst = i, !.key = k]

\* no action changes the configuration; the machine leaves the inputs of the
\* merge functions alone
Unchanged == UNCHANGED <<mergeConfig, storesOf, docA, docB, docC, out>>

\* const timestamp = Date.now(): the device's wall clock, which never runs
\* backwards and which no other device's clock is synchronised with
DateNow(i, timestamp) ==
  /\ timestamp \in clock[i]..MaxTime
  /\ clock' = [clock EXCEPT ![i] = timestamp]

\* ---------------------------------------------------------------- get(key)
\* a faulty variant of the caches updated: the first store is left out
BelowButFirst(hit) == 1..(hit - 1)

\* the indexes of this.stores.slice(0, cacheHitIndex)
Below(hit) == 0..(hit - 1)

GetBegin(c, i, k) ==
  /\ Free(c)
  /\ call' = [call EXCEPT ![c] = Started(c, "get", i, k)]
  /\ UNCHANGED <<data, clock, ops>>
  /\ Unchanged

\* one iteration of the read loop; after the last one, the cache update is
\* issued (stores before the first hit) or get returns
GetRead(c) ==
  /\ Reading(c, "get")
  /\ LET cur == call[c]
         doc == StoreGet(NextStore(c), cur.key)
         hit == IF IsDefined(doc) /\ cur.cacheHitIndex = -1 THEN cur.idx
                ELSE cur.cacheHitIndex
         merged == IF IsDefined(doc) THEN Accumulate(cur.merged, Val(doc))
                   ELSE cur.merged
         read == [cur EXCEPT !.merged = merged, !.cacheHitIndex = hit,
                             !.idx = cur.idx + 1]
     IN call' = [call EXCEPT ![c] =
          IF ~LastRead(c) THEN read
          ELSE IF ~IsDefined(merged) THEN [read EXCEPT !.pc = "done"]
          ELSE IF hit > 0 THEN [read EXCEPT !.pc = "writing", !.pending = Below(hit)]
          ELSE [read EXCEPT !.pc = "done", !.ret = Visible(Val(merged))]]
  /\ UNCHANGED <<data, clock, ops>>
  /\ Unchanged

\* one store.set(key, merged) of get's cache update is carried out
GetWrite(c, j) ==
  /\ Writing(c, "get")
  /\ j \in call[c].pending
  /\ LET cur == call[c]
         s == StoreAt(cur.inst, j)
         left == cur.pending \ {j}
     IN /\ data' = [data EXCEPT ![s] = Put(@, cur.key, Val(cur.merged))]
        /\ call' = [call EXCEPT ![c] =
             IF left # {} THEN [cur EXCEPT !.pending = left]
             ELSE [cur EXCEPT !.pending = left, !.pc = "done",
                              !.ret = Visible(Val(cur.merged))]]
  /\ UNCHANGED <<clock, ops>>
  /\ Unchanged

\* ------------------------------------------------------- set(key, updates)
SetBegin(c, i, k, updates) ==
  /\ Free(c)
  /\ ops < MaxOps
  /\ \E timestamp \in 1..MaxTime :
       /\ DateNow(i, timestamp)
       /\ call' = [call EXCEPT ![c] =
            [Started(c, "set", i, k) EXCEPT
               !.timestamp = timestamp, !.updates = updates,
               !.merged = Some(NewFields(i, timestamp, updates))]]
  /\ ops' = ops + 1
  /\ UNCHANGED data
  /\ Unchanged

\* one iteration of the read loop; after the last one the writes to all
\* stores are issued
SetRead(c) ==
  /\ Reading(c, "set")
  /\ LET cur == call[c]
         existing == StoreGet(NextStore(c), cur.key)
         merged == IF IsDefined(existing)
                   THEN Some(MergeDocuments(Val(cur.merged), Val(existing)))
                   ELSE cur.merged
         read == [cur EXCEPT !.merged = merged, !.idx = cur.idx + 1]
     IN call' = [call EXCEPT ![c] =
          IF ~LastRead(c) THEN read
          ELSE [read EXCEPT !.pc = "writing", !.pending = AllIndexes(cur.inst)]]
  /\ UNCHANGED <<data, clock, ops>>
  /\ Unchanged

\* one store.set(key, merged) of set is carried out
SetWrite(c, j) ==
  /\ Writing(c, "set")
  /\ j \in call[c].pending
  /\ LET cur == call[c]
         s == StoreAt(cur.inst, j)
         left == cur.pending \ {j}
     IN /\ data' = [data EXCEPT ![s] = Put(@, cur.key, Val(cur.merged))]
        /\ call' = [call EXCEPT ![c] =
             IF left # {} THEN [cur EXCEPT !.pending = left]
             ELSE [cur EXCEPT !.pending = left, !.pc = "done"]]
  /\ UNCHANGED <<clock, ops>>
  /\ Unchanged


\* ------------------------------------------------------------- delete(key)
DeleteBegin(c, i, k) ==
  /\ Free(c)
  /\ ops < MaxOps
  /\ \E timestamp \in 1..MaxTime :
       /\ DateNow(i, timestamp)
       /\ call' = [call EXCEPT ![c] =
            [Started(c, "delete", i, k) EXCEPT !.timestamp = timestamp]]
  /\ ops' = ops + 1
  /\ UNCHANGED data
  /\ Unchanged

\* one iteration of the read loop; after the last one delete returns false
\* (nothing found) or builds the tombstone document and issues the writes
DeleteRead(c) ==
  /\ Reading(c, "delete")
  /\ LET cur == call[c]
         doc == StoreGet(NextStore(c), cur.key)
         existing == IF IsDefined(doc) THEN Accumulate(cur.merged, Val(doc))
                     ELSE cur.merged
         read == [cur EXCEPT !.merged = existing, !.idx = cur.idx + 1]
     IN /\ call' = [call EXCEPT ![c] =
             IF ~LastRead(c) THEN read
             ELSE IF ~IsDefined(existing)
             THEN [read EXCEPT !.pc = "done", !.retBool = FALSE]
             ELSE [read EXCEPT
                     !.pc = "writing", !.pending = AllIndexes(cur.inst),
                     !.merged = Some(Tombstoned(Val(existing), cur.inst, cur.timestamp))]]
  /\ UNCHANGED <<data, clock, ops>>
  /\ Unchanged

\* one store.set(key, tombstone) of delete is carried out
DeleteWrite(c, j) ==
  /\ Writing(c, "delete")
  /\ j \in call[c].pending
  /\ LET cur == call[c]
         s == StoreAt(cur.inst, j)
         left == cur.pending \ {j}
     IN /\ data' = [data EXCEPT ![s] = Put(@, cur.key, Val(cur.merged))]
        /\ call' = [call EXCEPT ![c] =
             IF left # {} THEN [cur EXCEPT !.pending = left]
             ELSE [cur EXCEPT !.pending = left, !.pc = "done", !.retBool = TRUE]]
  /\ UNCHANGED <<clock, ops>>
  /\ Unchanged

\* ------------------------------------------- a store.set(key, doc) rejects
WriteOps == {"set", "delete", "get"}

\* a faulty variant of a rejecting store.set: the store takes the record and
\* rejects all the same
StoreAfterRejectTaking(contents, k, doc) == Put(contents, k, doc)

\* the contents of a store whose store.set(key, doc) rejects: what it held
StoreAfterReject(contents, k, doc) == contents

\* the store.set of stores[j] of a set, a delete or the cache update of a
\* get rejects: await Promise.all(writePromises) rejects at once with that
\* error and the call throws it, while the writes issued to the other
\* stores stay in flight
WriteRejects(c, j) ==
  /\ call[c].pc = "writing"
  /\ call[c].op \in WriteOps
  /\ j \in call[c].pending
  /\ LET cur == call[c]
         s == StoreAt(cur.inst, j)
         left == cur.pending \ {j}
     IN /\ data' = [data EXCEPT ![s] = StoreAfterReject(@, cur.key, Val(cur.merged))]
        /\ call' = [call EXCEPT ![c] =
             [cur EXCEPT !.pending = left, !.rejected = {j}, !.error = Some(s),
                         !.pc = IF left # {} THEN "rejected" ELSE "failed"]]
  /\ UNCHANGED <<clock, ops>>
  /\ Unchanged

\* a write left in flight by a call that has thrown is carried out
LateWrite(c, j) ==
  /\ call[c].pc = "rejected"
  /\ j \in call[c].pending
  /\ LET cur == call[c]
         s == StoreAt(cur.inst, j)
         left == cur.pending \ {j}
     IN /\ data' = [data EXCEPT ![s] = Put(@, cur.key, Val(cur.merged))]
        /\ call' = [call EXCEPT ![c] =
             [cur EXCEPT !.pending = left,
                         !.pc = IF left # {} THEN "rejected" ELSE "failed"]]
  /\ UNCHANGED <<clock, ops>>
  /\ Unchanged

\* a write left in flight by a call that has thrown rejects as well
LateReject(c, j) ==
  /\ call[c].pc = "rejected"
  /\ j \in call[c].pending
  /\ LET cur == call[c]
         s == StoreAt(cur.inst, j)
         left == cur.pending \ {j}
     IN /\ data' = [data EXCEPT ![s] = StoreAfterReject(@, cur.key, Val(cur.merged))]
        /\ call' = [call EXCEPT ![c] =
             [cur EXCEPT !.pending = left, !.rejected = cur.rejected \cup {j},
                         !.pc = IF left # {} THEN "rejected" ELSE "failed"]]
  /\ UNCHANGED <<clock, ops>>
  /\ Unchanged

\* --------------------------------------------------------- hardDelete(key)
\* store.delete(key) is issued on every store at once
HardDeleteBegin(c, i, k) ==
  /\ Free(c)
  /\ ops < MaxOps
  /\ call' = [call EXCEPT ![c] =
       [Started(c, "hardDelete", i, k) EXCEPT
          !.pc = "writing", !.pending = AllIndexes(i)]]
  /\ ops' = ops + 1
  /\ UNCHANGED <<data, clock>>
  /\ Unchanged

\* one store.delete(key) is carried out; the call returns results.some(r => r)
HardDeleteStore(c, j) ==
  /\ Writing(c, "hardDelete")
  /\ j \in call[c].pending
  /\ LET cur == call[c]
         s == StoreAt(cur.inst, j)
         left == cur.pending \ {j}
         some == cur.retBool \/ cur.key \in DOMAIN data[s]
     IN /\ data' = [data EXCEPT ![s] = Remove(@, cur.key)]
        /\ call' = [call EXCEPT ![c] =
             [cur EXCEPT !.pending = left, !.retBool = some,
                         !.pc = IF left # {} THEN "writing" ELSE "done"]]
  /\ UNCHANGED <<clock, ops>>
  /\ Unchanged

\* ------------------------------------------------ has(key), isDeleted(key)
HasBegin(c, i, k) ==
  /\ Free(c)
  /\ call' = [call EXCEPT ![c] = Started(c, "has", i, k)]
  /\ UNCHANGED <<data, clock, ops>>
  /\ Unchanged

IsDeletedBegin(c, i, k) ==
  /\ Free(c)
  /\ call' = [call EXCEPT ![c] = Started(c, "isDeleted", i, k)]
  /\ UNCHANGED <<data, clock, ops>>
  /\ Unchanged

\* one iteration of the loop of has: the first store holding a document
\* decides (its tombstone is not true); false when the loop runs out
HasRead(c) ==
  /\ Reading(c, "has")
  /\ LET cur == call[c]
         doc == StoreGet(NextStore(c), cur.key)
         read == [cur EXCEPT !.idx = cur.idx + 1]
     IN call' = [call EXCEPT ![c] =
          IF IsDefined(doc)
          THEN [read EXCEPT !.pc = "done", !.retBool = ~IsTombstoned(Val(doc))]
          ELSE IF LastRead(c) THEN [read EXCEPT !.pc = "done", !.retBool = FALSE]
          ELSE read]
  /\ UNCHANGED <<data, clock, ops>>
  /\ Unchanged

\* one iteration of the loop of isDeleted: the first store holding a
\* document decides (its tombstone is true); false when the loop runs out
IsDeletedRead(c) ==
  /\ Reading(c, "isDeleted")
  /\ LET cur == call[c]
         doc == StoreGet(NextStore(c), cur.key)
         read == [cur EXCEPT !.idx = cur.idx + 1]
     IN call' = [call EXCEPT ![c] =
          IF IsDefined(doc)
          THEN [read EXCEPT !.pc = "done", !.retBool = IsTombstoned(Val(doc))]
          ELSE IF LastRead(c) THEN [read EXCEPT !.pc = "done", !.retBool = FALSE]
          ELSE read]
  /\ UNCHANGED <<data, clock, ops>>
  /\ Unchanged

\* ------------------------------------------------------------- getRaw(key)
GetRawBegin(c, i, k) ==
  /\ Free(c)
  /\ call' = [call EXCEPT ![c] = Started(c, "getRaw", i, k)]
  /\ UNCHANGED <<data, clock, ops>>
  /\ Unchanged

GetRawRead(c) ==
  /\ Reading(c, "getRaw")
  /\ LET cur == call[c]
         doc == StoreGet(NextStore(c), cur.key)
         merged == IF IsDefined(doc) THEN Accumulate(cur.merged, Val(doc))
                   ELSE cur.merged
         read == [cur EXCEPT !.merged = merged, !.idx = cur.idx + 1]
     IN call' = [call EXCEPT ![c] =
          IF ~LastRead(c) THEN read
          ELSE [read EXCEPT !.pc = "done", !.ret = merged]]
  /\ UNCHANGED <<data, clock, ops>>
  /\ Unchanged

\* ------------------------------------------------------------------ clear()
\* the stores that provide the optional clear operation; the remaining one
\* is a store without it
StoresWithClear == {"mobileCache", "sharedRemote"}

\* a faulty variant of the stores cleared: every store
WithClearAll(i) == AllIndexes(i)

\* the indexes of this.stores.filter(store => store.clear)
WithClear(i) == {j \in AllIndexes(i) : StoreAt(i, j) \in StoresWithClear}

\* store.clear() is issued on every store that has it; with no such store
\* Promise.all([]) resolves and clear returns
ClearBegin(c, i) ==
  /\ Free(c)
  /\ ops < MaxOps
  /\ call' = [call EXCEPT ![c] =
       [Started(c, "clear", i, "key") EXCEPT
          !.pc = IF WithClear(i) # {} THEN "writing" ELSE "done",
          !.pending = WithClear(i)]]
  /\ ops' = ops + 1
  /\ UNCHANGED <<data, clock>>
  /\ Unchanged

\* one store.clear() is carried out: the store loses every key
ClearStore(c, j) ==
  /\ Writing(c, "clear")
  /\ j \in call[c].pending
  /\ LET cur == call[c]
         s == StoreAt(cur.inst, j)
         left == cur.pending \ {j}
     IN /\ data' = [data EXCEPT ![s] = <<>>]
        /\ call' = [call EXCEPT ![c] =
             [cur EXCEPT !.pending = left,
                         !.pc = IF left # {} THEN "writing" ELSE "done"]]
  /\ UNCHANGED <<clock, ops>>
  /\ Unchanged

\* ------------------------------------- a call run alone, from start to end
\* the read loop of get / getRaw / delete over all stores of instance i
RECURSIVE MergedUpTo(_, _, _)
MergedUpTo(i, k, n) ==
  IF n = 0 THEN Undefined
  ELSE LET sofar == MergedUpTo(i, k, n - 1)
           doc == StoreGet(storesOf[i][n], k)
       IN IF IsDefined(doc) THEN Accumulate(sofar, Val(doc)) ELSE sofar

MergedAll(i, k) == MergedUpTo(i, k, NumStores(i))

\* what get(key) on instance i returns when no other call overlaps it
GetReturns(i, k) ==
  IF IsDefined(MergedAll(i, k)) THEN Visible(Val(MergedAll(i, k))) ELSE Undefined

\* the first store of instance i, in cascade order, holding a document
FirstHit(i, k) ==
  LET hits == {j \in 1..NumStores(i) : IsDefined(StoreGet(storesOf[i][j], k))}
  IN IF hits = {} THEN Undefined
     ELSE StoreGet(storesOf[i][CHOOSE j \in hits : \A h \in hits : j <= h], k)

\* a faulty variant of what has returns: the tombstone is not looked at
HasReturnsAnyRecord(i, k) == IsDefined(FirstHit(i, k))

\* what has / isDeleted on instance i return when no other call overlaps
HasReturns(i, k) == IsDefined(FirstHit(i, k)) /\ ~IsTombstoned(Val(FirstHit(i, k)))
IsDeletedReturns(i, k) == IsDefined(FirstHit(i, k)) /\ IsTombstoned(Val(FirstHit(i, k)))


\* ---------------------------------------------------------------- observers
MutatingOps == {"set", "delete", "hardDelete"}

Completes(c) == call[c].pc # "done" /\ call'[c].pc = "done"

\* what a completed call did; ok: it wrote (set always, delete / hardDelete
\* when they returned true)
Entry(r) == [op |-> r.op, inst |-> r.inst, timestamp |-> r.timestamp,
             updates |-> r.updates, ok |-> (r.op = "set" \/ r.retBool)]

\* history gets an entry whenever a mutating call completes
RecordHistory ==
  LET ended == {c \in Calls : Completes(c) /\ call'[c].op \in MutatingOps}
  IN history' = IF ended = {} THEN history
                ELSE Append(history, Entry(call'[CHOOSE c \in ended : TRUE]))

\* seen[c] gets what each read of call c returned, and is emptied when a new
\* call begins in slot c
RecordSeen ==
  seen' = [c \in Calls |->
             IF call'[c] = call[c] THEN seen[c]
             ELSE IF Free(c) THEN <<>>
             ELSE IF call[c].pc = "reading"
             THEN Append(seen[c], StoreGet(NextStore(c), call[c].key))
             ELSE seen[c]]

\* ------------------------------------------------------- the specifications
NoInputs == docA = <<>> /\ docB = <<>> /\ docC = <<>> /\ out = <<>>

\* the state after construction: empty stores, no call in progress
Constructed(configs, topologies) ==
  /\ mergeConfig \in configs
  /\ storesOf \in topologies
  /\ data = [s \in StoreNames |-> <<>>]
  /\ clock = [i \in Instances |-> 1]
  /\ call = [c \in Calls |-> IdleCall]
  /\ ops = 0
  /\ history = <<>>
  /\ seen = [c \in Calls |-> <<>>]

Quiescent == \A c \in Calls : Free(c)

\* a call of set or delete begins
BeginWrite(c) ==
  \E i \in Instances, k \in Keys :
    \/ \E updates \in Updates : SetBegin(c, i, k, updates)
    \/ DeleteBegin(c, i, k)

\* Calls of set and delete by two devices, each with its own cache in front
\* of the shared store, overlapping freely: slot c2 serves the calls that
\* begin while the call in slot c1 is in progress.
OverlapConfigs == { [name |-> "lww"], [coins |-> "counter"] }

Init == Constructed(OverlapConfigs, {CachedStores}) /\ NoInputs

Observed == RecordSeen /\ UNCHANGED history

Next ==
  \E c \in Calls :
    \/ (c = "c2" => ~Free("c1")) /\ ops < MaxRacing /\ BeginWrite(c) /\ Observed
    \/ SetRead(c) /\ Observed
    \/ DeleteRead(c) /\ Observed
    \/ \E j \in call[c].pending :
         \/ SetWrite(c, j) /\ Observed
         \/ DeleteWrite(c, j) /\ Observed

Spec == Init /\ [][Next]_vars

\* Calls of set, delete and get that never overlap: a call begins only when
\* no other is in progress.
SeqConfigs == { [name |-> "lww"], [score |-> "max"], [coins |-> "counter"] }

SeqInit == Constructed(SeqConfigs, {CachedStores, SharedStore}) /\ NoInputs

Logged == RecordHistory /\ RecordSeen

SeqNext ==
  \/ Quiescent /\ BeginWrite("c1") /\ Logged
  \/ Quiescent /\ (\E i \in Instances, k \in Keys : GetBegin("c1", i, k)) /\ Logged
  \/ SetRead("c1") /\ Logged
  \/ DeleteRead("c1") /\ Logged
  \/ GetRead("c1") /\ Logged
  \/ \E j \in call["c1"].pending :
       \/ SetWrite("c1", j) /\ Logged
       \/ DeleteWrite("c1", j) /\ Logged
       \/ GetWrite("c1", j) /\ Logged

SpecSeq == SeqInit /\ [][SeqNext]_vars

\* The same calls on a 'union' field, both devices on one store.
UnionInit == Constructed({[tags |-> "union"]}, {SharedStore}) /\ NoInputs

SpecSeqUnion == UnionInit /\ [][SeqNext]_vars

\* The same calls on a field merged by the custom first-writer-wins
\* function.
CustomInit ==
  Constructed({[value |-> CustomStrategy]}, {CachedStores, SharedStore}) /\ NoInputs

SpecSeqCustom == CustomInit /\ [][SeqNext]_vars

\* The same calls on a 'max' field and on a 'min' field.
MaxMinConfigs == { [score |-> "max"], [bestTime |-> "min"] }

MaxMinInit == Constructed(MaxMinConfigs, {CachedStores, SharedStore}) /\ NoInputs

SpecSeqMaxMin == MaxMinInit /\ [][SeqNext]_vars

\* The same calls on three tiers (memory, disk, network), the other device
\* writing to the network tier alone or to the disk and network tiers.
TierInit == Constructed({[name |-> "lww"]}, {ThreeTier, ThreeTierDisk}) /\ NoInputs

SpecTier == TierInit /\ [][SeqNext]_vars

\* Calls of set, delete, hardDelete, get, getRaw, has and isDeleted that
\* never overlap, on an 'lww' field.
HardInit == Constructed({[name |-> "lww"]}, {CachedStores, SharedStore}) /\ NoInputs

\* a call of hardDelete, getRaw, has or isDeleted begins
BeginOther(c) ==
  \E i \in Instances, k \in Keys :
    \/ HardDeleteBegin(c, i, k)
    \/ GetRawBegin(c, i, k)
    \/ HasBegin(c, i, k)
    \/ IsDeletedBegin(c, i, k)

HardNext ==
  \/ SeqNext
  \/ Quiescent /\ BeginOther("c1") /\ Logged
  \/ (\E j \in call["c1"].pending : HardDeleteStore("c1", j)) /\ Logged
  \/ GetRawRead("c1") /\ Logged
  \/ HasRead("c1") /\ Logged
  \/ IsDeletedRead("c1") /\ Logged

SpecSeqHard == HardInit /\ [][HardNext]_vars

\* The same calls on three tiers (memory, disk, network).
SpecTierHard == TierInit /\ [][HardNext]_vars

\* The same calls on an 'lww' field, each device with its cache in front of
\* the shared store, where every call in progress runs to its end and each
\* device calls get again and again.
RepairInit == Constructed({[name |-> "lww"]}, {CachedStores}) /\ NoInputs

\* a step of the call in progress
CallStep ==
  \/ SetRead("c1") /\ Logged
  \/ DeleteRead("c1") /\ Logged
  \/ GetRead("c1") /\ Logged
  \/ \E j \in call["c1"].pending :
       \/ SetWrite("c1", j) /\ Logged
       \/ DeleteWrite("c1", j) /\ Logged
       \/ GetWrite("c1", j) /\ Logged

\* device i calls get
GetCalled(i) == Quiescent /\ GetBegin("c1", i, "key") /\ Logged

SpecRepair ==
  /\ RepairInit
  /\ [][SeqNext]_vars
  /\ WF_vars(CallStep)
  /\ \A i \in Instances : SF_vars(GetCalled(i))

\* Calls of set, delete and get by the three-tier device on an 'lww' field,
\* through stores whose store.set may reject. A call begins when the call
\* before it has returned or thrown; the writes that a call that has thrown
\* left in flight land later, while the next call (in the other slot) is
\* running.
FailInit == Constructed({[name |-> "lww"]}, {ThreeTier}) /\ NoInputs

\* the caller of the call in slot c has its result or its error
BackToCaller(c) == call[c].pc \in {"idle", "done", "failed", "rejected"}

OtherCall(c) == IF c = "c1" THEN "c2" ELSE "c1"

\* a call of set, delete or get by device i begins
BeginBy(c, i) ==
  \E k \in Keys :
    \/ ops < MaxFailing /\ \E updates \in Updates : SetBegin(c, i, k, updates)
    \/ ops < MaxFailing /\ DeleteBegin(c, i, k)
    \/ GetBegin(c, i, k)

FailNext ==
  \E c \in Calls :
    \/ /\ Free(c) /\ BackToCaller(OtherCall(c))
       /\ BeginBy(c, "mobile")
       /\ Logged
    \/ SetRead(c) /\ Logged
    \/ DeleteRead(c) /\ Logged
    \/ GetRead(c) /\ Logged
    \/ \E j \in call[c].pending :
         \/ SetWrite(c, j) /\ Logged
         \/ DeleteWrite(c, j) /\ Logged
         \/ GetWrite(c, j) /\ Logged
         \/ WriteRejects(c, j) /\ Logged
         \/ LateWrite(c, j) /\ Logged
         \/ LateReject(c, j) /\ Logged

SpecFail == FailInit /\ [][FailNext]_vars

\* Calls of set on two keys and of clear that never overlap, on three tiers
\* of which the middle one is a store without clear.
TwoKeys == {"key", "other"}

ClearInit == Constructed({[name |-> "lww"]}, {ThreeTier, ThreeTierDisk}) /\ NoInputs

ClearNext ==
  \/ /\ Quiescent
     /\ \E i \in Instances, k \in TwoKeys, updates \in Updates : SetBegin("c1", i, k, updates)
     /\ Logged
  \/ Quiescent /\ (\E i \in Instances : ClearBegin("c1", i)) /\ Logged
  \/ SetRead("c1") /\ Logged
  \/ (\E j \in call["c1"].pending : SetWrite("c1", j)) /\ Logged
  \/ (\E j \in call["c1"].pending : ClearStore("c1", j)) /\ Logged

SpecClear == ClearInit /\ [][ClearNext]_vars

\* ------------------------------------- the single-store implementation
\* The class of src/index.ts: new KeyvCRDT(store, deviceId, mergeConfig). The
\* instances of the two devices are given one store of their own, which no
\* multi-store instance uses; their calls run in slot c2.
SingleStore == "pcCache"
OneStoreEach == [mobile |-> <<"sharedRemote">>, pc |-> <<"sharedRemote">>]

\* get(key): one read, tombstone check, toPlainObject
SingleGet(c) ==
  /\ Reading(c, "get")
  /\ LET doc == StoreGet(SingleStore, call[c].key)
         ret == IF ~IsDefined(doc) THEN Undefined
                ELSE IF TOMBSTONE_KEY \in DOMAIN Val(doc) /\ Val(doc)[TOMBSTONE_KEY].v = TRUE
                THEN Undefined
                ELSE Some(ToPlainObject(Val(doc)))
     IN call' = [call EXCEPT ![c] = [@ EXCEPT !.pc = "done", !.ret = ret]]
  /\ UNCHANGED <<data, clock, ops>>
  /\ Unchanged

\* set(key, updates): newFields was built when the call began; one read,
\* mergeDocuments(newFields, existing)
SingleSetRead(c) ==
  /\ Reading(c, "set")
  /\ LET existing == StoreGet(SingleStore, call[c].key)
         merged == IF IsDefined(existing)
                   THEN Some(MergeDocuments(Val(call[c].merged), Val(existing)))
                   ELSE call[c].merged
     IN call' = [call EXCEPT ![c] = [@ EXCEPT !.pc = "writing", !.merged = merged]]
  /\ UNCHANGED <<data, clock, ops>>
  /\ Unchanged

\* await this.store.set(key, merged)
SingleSetWrite(c) ==
  /\ Writing(c, "set")
  /\ data' = [data EXCEPT ![SingleStore] = Put(@, call[c].key, Val(call[c].merged))]
  /\ call' = [call EXCEPT ![c] = [@ EXCEPT !.pc = "done"]]
  /\ UNCHANGED <<clock, ops>>
  /\ Unchanged

\* delete(key): one read; false when nothing is stored, else the tombstone
\* { ...existing, _deleted: { v: true, t: timestamp, d } }
SingleDeleteRead(c) ==
  /\ Reading(c, "delete")
  /\ LET existing == StoreGet(SingleStore, call[c].key)
     IN call' = [call EXCEPT ![c] =
          IF ~IsDefined(existing) THEN [@ EXCEPT !.pc = "done", !.retBool = FALSE]
          ELSE [@ EXCEPT !.pc = "writing",
                  !.merged = Some([key \in DOMAIN Val(existing) \cup {TOMBSTONE_KEY} |->
                                     IF key = TOMBSTONE_KEY
                                     THEN [v |-> TRUE, t |-> call[c].timestamp,
                                           d |-> DeviceIdOf(call[c].inst)]
                                     ELSE Val(existing)[key]])]]
  /\ UNCHANGED <<data, clock, ops>>
  /\ Unchanged

\* await this.store.set(key, tombstone); return true
SingleDeleteWrite(c) ==
  /\ Writing(c, "delete")
  /\ data' = [data EXCEPT ![SingleStore] = Put(@, call[c].key, Val(call[c].merged))]
  /\ call' = [call EXCEPT ![c] = [@ EXCEPT !.pc = "done", !.retBool = TRUE]]
  /\ UNCHANGED <<clock, ops>>
  /\ Unchanged

\* hardDelete(key): return this.store.delete(key)
SingleHardDelete(c) ==
  /\ Writing(c, "hardDelete")
  /\ data' = [data EXCEPT ![SingleStore] = Remove(@, call[c].key)]
  /\ call' = [call EXCEPT ![c] =
       [@ EXCEPT !.pc = "done", !.retBool = call[c].key \in DOMAIN data[SingleStore]]]
  /\ UNCHANGED <<clock, ops>>
  /\ Unchanged

\* has(key): one read; doc[TOMBSTONE_KEY]?.v !== true
SingleHas(c) ==
  /\ Reading(c, "has")
  /\ LET doc == StoreGet(SingleStore, call[c].key)
     IN call' = [call EXCEPT ![c] =
          [@ EXCEPT !.pc = "done",
             !.retBool = IsDefined(doc) /\
                         ~(TOMBSTONE_KEY \in DOMAIN Val(doc) /\ Val(doc)[TOMBSTONE_KEY].v = TRUE)]]
  /\ UNCHANGED <<data, clock, ops>>
  /\ Unchanged

\* isDeleted(key): one read; doc[TOMBSTONE_KEY]?.v === true
SingleIsDeleted(c) ==
  /\ Reading(c, "isDeleted")
  /\ LET doc == StoreGet(SingleStore, call[c].key)
     IN call' = [call EXCEPT ![c] =
          [@ EXCEPT !.pc = "done",
             !.retBool = IsDefined(doc) /\
                         (TOMBSTONE_KEY \in DOMAIN Val(doc) /\ Val(doc)[TOMBSTONE_KEY].v = TRUE)]]
  /\ UNCHANGED <<data, clock, ops>>
  /\ Unchanged

\* getRaw(key): the stored document as it is
SingleGetRaw(c) ==
  /\ Reading(c, "getRaw")
  /\ call' = [call EXCEPT ![c] =
       [@ EXCEPT !.pc = "done", !.ret = StoreGet(SingleStore, call[c].key)]]
  /\ UNCHANGED <<data, clock, ops>>
  /\ Unchanged

\* The two implementations side by side: the caller makes the same call, at
\* the same reading of the device's clock, on a multi-store instance with
\* exactly one store (slot c1) and on a single-store instance (slot c2); the
\* next call is made when both have returned.
PairedOps == {"get", "set", "delete", "hardDelete", "has", "isDeleted", "getRaw"}

\* the call as it stands once begun: timestamp taken, newFields built
StartedWith(op, i, k, updates, timestamp) ==
  CASE op = "set" ->
         [Started("c1", op, i, k) EXCEPT
            !.timestamp = timestamp, !.updates = updates,
            !.merged = Some(NewFields(i, timestamp, updates))]
    [] op = "delete" -> [Started("c1", op, i, k) EXCEPT !.timestamp = timestamp]
    [] op = "hardDelete" ->
         [Started("c1", op, i, k) EXCEPT !.pc = "writing", !.pending = {0}]
    [] OTHER -> Started("c1", op, i, k)

PairBegin(op, i, k) ==
  /\ Quiescent
  /\ IF op \in {"set", "delete"}
     THEN /\ ops < MaxOps
          /\ ops' = ops + 1
          /\ \E timestamp \in 1..MaxTime :
               /\ DateNow(i, timestamp)
               /\ \E updates \in (IF op = "set" THEN Updates ELSE {<<>>}) :
                    call' = [c \in Calls |-> StartedWith(op, i, k, updates, timestamp)]
     ELSE /\ op = "hardDelete" => ops < MaxOps
          /\ ops' = IF op = "hardDelete" THEN ops + 1 ELSE ops
          /\ call' = [c \in Calls |-> StartedWith(op, i, k, <<>>, 0)]
          /\ UNCHANGED clock
  /\ UNCHANGED data
  /\ Unchanged

Unobserved == UNCHANGED <<history, seen>>

PairInit == Constructed(SeqConfigs, {OneStoreEach}) /\ NoInputs

PairNext ==
  \/ (\E op \in PairedOps, i \in Instances, k \in Keys : PairBegin(op, i, k)) /\ Unobserved
  \/ GetRead("c1") /\ Unobserved
  \/ SetRead("c1") /\ Unobserved
  \/ DeleteRead("c1") /\ Unobserved
  \/ HasRead("c1") /\ Unobserved
  \/ IsDeletedRead("c1") /\ Unobserved
  \/ GetRawRead("c1") /\ Unobserved
  \/ SetWrite("c1", 0) /\ Unobserved
  \/ DeleteWrite("c1", 0) /\ Unobserved
  \/ HardDeleteStore("c1", 0) /\ Unobserved
  \/ SingleGet("c2") /\ Unobserved
  \/ SingleSetRead("c2") /\ Unobserved
  \/ SingleSetWrite("c2") /\ Unobserved
  \/ SingleDeleteRead("c2") /\ Unobserved
  \/ SingleDeleteWrite("c2") /\ Unobserved
  \/ SingleHardDelete("c2") /\ Unobserved
  \/ SingleHas("c2") /\ Unobserved
  \/ SingleIsDeleted("c2") /\ Unobserved
  \/ SingleGetRaw("c2") /\ Unobserved

SpecPair == PairInit /\ [][PairNext]_vars

\* Calls of every operation by two devices, each with its own cache in front
\* of the shared store, overlapping freely.
AllInit == Constructed({[name |-> "lww"]}, {CachedStores}) /\ NoInputs

\* a call of any operation begins
BeginAny(c) ==
  \E i \in Instances, k \in Keys :
    \/ ops < MaxRacing /\ SetBegin(c, i, k, [name |-> 1])
    \/ ops < MaxRacing /\ DeleteBegin(c, i, k)
    \/ ops < MaxRacing /\ HardDeleteBegin(c, i, k)
    \/ ops < MaxRacing /\ ClearBegin(c, i)
    \/ GetBegin(c, i, k)
    \/ GetRawBegin(c, i, k)
    \/ HasBegin(c, i, k)
    \/ IsDeletedBegin(c, i, k)

AllNext ==
  \E c \in Calls :
    \/ (c = "c2" => ~Free("c1")) /\ BeginAny(c) /\ Logged
    \/ SetRead(c) /\ Logged
    \/ DeleteRead(c) /\ Logged
    \/ GetRead(c) /\ Logged
    \/ GetRawRead(c) /\ Logged
    \/ HasRead(c) /\ Logged
    \/ IsDeletedRead(c) /\ Logged
    \/ \E j \in call[c].pending :
         \/ SetWrite(c, j) /\ Logged
         \/ DeleteWrite(c, j) /\ Logged
         \/ GetWrite(c, j) /\ Logged
         \/ HardDeleteStore(c, j) /\ Logged
         \/ ClearStore(c, j) /\ Logged

SpecAll == AllInit /\ [][AllNext]_vars

\* Two writers, each with its own cache in front of the shared store and
\* the four strategies configured, each calling set once, one after the
\* other.
MixedConfig ==
  [name |-> "lww", highScore |-> "max", coins |-> "counter", achievements |-> "union"]

MixedInit == Constructed({MixedConfig}, {CachedStores}) /\ NoInputs

HasWritten(i) == \E n \in 1..Len(history) : history[n].inst = i

\* the partial updates the two writers pass: any fields, one achievement
MixedUpdates ==
  {u \in Updates : "achievements" \in DOMAIN u => Len(u["achievements"]) = 1}

MixedNext ==
  \/ /\ Quiescent
     /\ \E i \in Instances, updates \in MixedUpdates :
          ~HasWritten(i) /\ SetBegin("c1", i, "key", updates)
     /\ Logged
  \/ SetRead("c1") /\ Logged
  \/ \E j \in call["c1"].pending : SetWrite("c1", j) /\ Logged

SpecMixed == MixedInit /\ [][MixedNext]_vars

\* ----------------------------------------------- the merge functions alone
\* per-device counters over the devices "a" and "b"
CounterValues ==
  { c \in UNION { [ds -> Numbers] : ds \in SUBSET {IdA, IdB} } : DOMAIN c # {} }

Timestamps == 1..MaxTime

\* every version of the tombstone
TombstoneFields == [v : BOOLEAN, t : Timestamps, d : DeviceIds]

\* every version of field key: a counter carries its per-device values, and
\* its value is their sum
FieldVersions(key) ==
  IF StrategyOf(key) = "counter"
  THEN { [v |-> SumValues(c), t |-> t, d |-> d, c |-> c] :
           c \in CounterValues, t \in Timestamps, d \in DeviceIds }
  ELSE [v : ValuesFor(StrategyOf(key)), t : Timestamps, d : DeviceIds]

\* the document with the one field key |-> f
OneField(key, f) == [x \in {key} |-> f]

\* the documents with at most one field
SmallDocs ==
  {<<>>}
  \cup { OneField(TOMBSTONE_KEY, f) : f \in TombstoneFields }
  \cup UNION { { OneField(key, f) : f \in FieldVersions(key) } : key \in DOMAIN mergeConfig }

\* the documents a first set() of one field writes, and those documents
\* tombstoned by a delete() of any device at the latest time
WrittenDocs ==
  LET fresh == UNION { { [x \in {TOMBSTONE_KEY, key} |->
                            IF x = key THEN f ELSE [v |-> FALSE, t |-> f.t, d |-> f.d]] :
                         f \in FieldVersions(key) } : key \in DOMAIN mergeConfig }
  IN fresh \cup { [doc EXCEPT ![TOMBSTONE_KEY] = [v |-> TRUE, t |-> MaxTime, d |-> d]] :
                    doc \in fresh, d \in DeviceIds }

InputDocs == SmallDocs \cup WrittenDocs

NoMachine ==
  /\ storesOf = SharedStore
  /\ data = [s \in StoreNames |-> <<>>]
  /\ clock = [i \in Instances |-> 1]
  /\ call = [c \in Calls |-> IdleCall]
  /\ ops = 0
  /\ history = <<>>
  /\ seen = [c \in Calls |-> <<>>]

Machine == <<storesOf, data, clock, call, ops, history, seen>>

\* two documents merged in both orders, and the first with itself
MergeInit ==
  /\ mergeConfig \in OneFieldConfigs
  /\ docA \in InputDocs
  /\ docB \in InputDocs
  /\ docC = <<>>
  /\ out = <<>>
  /\ NoMachine

MergeBoth ==
  /\ out = <<>>
  /\ out' = [ab |-> MergeDocuments(docA, docB), ba |-> MergeDocuments(docB, docA),
             aa |-> MergeDocuments(docA, docA)]
  /\ UNCHANGED <<mergeConfig, docA, docB, docC, Machine>>

MergeNext == MergeBoth

SpecMerge == MergeInit /\ [][MergeNext]_vars

\* two documents carrying a tombstone, merged in both orders under merge
\* configurations that name the reserved tombstone field itself
TombstoneConfigs ==
  OneFieldConfigs
  \cup { [x \in {TOMBSTONE_KEY} |-> strategy] :
           strategy \in BuiltinStrategy \cup {CustomStrategy, NoStrategy} }

TombstoneDocs == { OneField(TOMBSTONE_KEY, f) : f \in TombstoneFields }

TombstoneInit ==
  /\ mergeConfig \in TombstoneConfigs
  /\ docA \in TombstoneDocs
  /\ docB \in TombstoneDocs
  /\ docC = <<>>
  /\ out = <<>>
  /\ NoMachine

SpecTombstone == TombstoneInit /\ [][MergeNext]_vars

\* three documents folded in both groupings
AssocInit ==
  /\ mergeConfig \in OneFieldConfigs
  /\ docA \in SmallDocs
  /\ docB \in SmallDocs
  /\ docC \in SmallDocs
  /\ out = <<>>
  /\ NoMachine

MergeThree ==
  /\ out = <<>>
  /\ out' = [left |-> MergeDocuments(MergeDocuments(docA, docB), docC),
             right |-> MergeDocuments(docA, MergeDocuments(docB, docC))]
  /\ UNCHANGED <<mergeConfig, docA, docB, docC, Machine>>

AssocNext == MergeThree

SpecAssoc == AssocInit /\ [][AssocNext]_vars

\* ----------------------------------------------------- the projection alone
\* every version of field key as the type CRDTField allows it: for a counter
\* any value beside any per-device counters, the empty one included
TypedFieldVersions(key) ==
  IF StrategyOf(key) = "counter"
  THEN { [v |-> v, t |-> t, d |-> d, c |-> c] :
           v \in 0..(2 * MaxVal), c \in CounterValues \cup {<<>>},
           t \in Timestamps, d \in DeviceIds }
  ELSE FieldVersions(key)

\* the documents holding a tombstone or none, and a version of the
\* configured field or none
TypedDocs ==
  LET tombs == {<<>>} \cup { OneField(TOMBSTONE_KEY, f) : f \in TombstoneFields }
      fields == {<<>>} \cup UNION { { OneField(key, f) : f \in TypedFieldVersions(key) } :
                                      key \in DOMAIN mergeConfig }
  IN { [x \in DOMAIN a \cup DOMAIN b |-> IF x \in DOMAIN a THEN a[x] ELSE b[x]] :
         a \in tombs, b \in fields }

ProjectInit ==
  /\ mergeConfig \in OneFieldConfigs
  /\ docA \in TypedDocs
  /\ docB = <<>>
  /\ docC = <<>>
  /\ out = <<>>
  /\ NoMachine

\* the end of get on the merged document docA: the tombstone check and the
\* projection
Project ==
  /\ out = <<>>
  /\ out' = [got |-> Visible(docA)]
  /\ UNCHANGED <<mergeConfig, docA, docB, docC, Machine>>

ProjectNext == Project

SpecProject == ProjectInit /\ [][ProjectNext]_vars

\* --------------------------------------------------------- the constructor
RequiresStore == "KeyvCRDT requires at least one store"

\* every list of at most n stores
RECURSIVE StoreListsUpTo(_)
StoreListsUpTo(n) ==
  IF n = 0 THEN {<<>>}
  ELSE LET shorter == StoreListsUpTo(n - 1)
       IN shorter \cup {Append(l, s) : l \in {m \in shorter : Len(m) = n - 1},
                                       s \in StoreNames}

\* a faulty variant of the check of the constructor: any list of stores will do
NoStoresNever(stores) == FALSE

\* stores.length === 0
NoStores(stores) == Len(stores) = 0

\* before new KeyvCRDT(deviceId, mergeConfig, ...docA): no instance yet
ConstructInit ==
  /\ mergeConfig \in OneFieldConfigs
  /\ docA \in StoreListsUpTo(MaxStores)
  /\ docB = <<>>
  /\ docC = <<>>
  /\ out = <<>>
  /\ storesOf = [i \in Instances |-> <<>>]
  /\ data = [s \in StoreNames |-> <<>>]
  /\ clock = [i \in Instances |-> 1]
  /\ call = [c \in Calls |-> IdleCall]
  /\ ops = 0
  /\ history = <<>>
  /\ seen = [c \in Calls |-> <<>>]

\* new KeyvCRDT(deviceId, mergeConfig, ...docA) for the device 'mobile': it
\* throws, or yields the instance with this.stores = stores
Construct ==
  /\ out = <<>>
  /\ IF NoStores(docA)
     THEN /\ out' = [error |-> Some(RequiresStore), instance |-> Undefined]
          /\ UNCHANGED storesOf
     ELSE /\ out' = [error |-> Undefined,
                     instance |-> Some([deviceId |-> DeviceIdOf("mobile"), stores |-> docA])]
          /\ storesOf' = [storesOf EXCEPT !["mobile"] = docA]
  /\ UNCHANGED <<mergeConfig, docA, docB, docC, data, clock, call, ops, history, seen>>

ConstructNext == Construct

SpecConstruct == ConstructInit /\ [][ConstructNext]_vars

\* ------------------------------------------------------------------ claims
Merged == out # <<>>
BuiltinOnly == \A key \in DOMAIN mergeConfig : StrategyOf(key) \in BuiltinStrategy
SharedFields == DOMAIN docA \cap DOMAIN docB

\* C4: merge is commutative: for every built-in strategy and any two
\* documents A and B, mergeDocuments(A, B) equals mergeDocuments(B, A) in
\* every field's value, timestamp, deviceId and per-device counters.
MergeCommutes == (Merged /\ BuiltinOnly) => out.ab = out.ba

\* C6: document merge is associative: for every built-in strategy and any
\* three documents, merging (A with B) with C gives the same document as
\* merging A with (B with C).
MergeAssociates == (Merged /\ BuiltinOnly) => out.left = out.right

\* C6 witness: three versions of the configured field carrying the same
\* timestamp and three different deviceIds have been merged in both groupings
ThreeWayTieMerged ==
  /\ Merged
  /\ BuiltinOnly
  /\ \E key \in DOMAIN mergeConfig :
       /\ key \in DOMAIN docA \cap DOMAIN docB \cap DOMAIN docC
       /\ docA[key].t = docB[key].t /\ docB[key].t = docC[key].t
       /\ Cardinality({docA[key].d, docB[key].d, docC[key].d}) = 3
       /\ docA[key].v # docB[key].v

\* the fields merged by last-write-wins: configured 'lww' or not configured
LwwFields == {key \in DOMAIN mergeConfig : mergeConfig[key] \in {"lww", NoStrategy}}

\* version a beats version b: later timestamp, or the same timestamp and the
\* lexicographically larger deviceId
Beats(a, b) == a.t > b.t \/ (a.t = b.t /\ StrGreater(a.d, b.d))

\* C7: last-write-wins: merging two versions of an lww (or unconfigured)
\* field returns exactly the version with the larger timestamp, and with
\* equal timestamps the version with the lexicographically larger deviceId,
\* whichever argument position each version is in.
LwwLaterOrLargerWins ==
  Merged =>
    \A key \in LwwFields \cap SharedFields :
      /\ Beats(docA[key], docB[key]) => (out.ab[key] = docA[key] /\ out.ba[key] = docA[key])
      /\ Beats(docB[key], docA[key]) => (out.ab[key] = docB[key] /\ out.ba[key] = docB[key])

\* C7 witness: two versions with the same timestamp, the first argument's
\* deviceId being the larger one, have been merged
LwwTieMerged ==
  /\ Merged
  /\ \E key \in LwwFields \cap SharedFields :
       /\ docA[key].t = docB[key].t
       /\ StrGreater(docA[key].d, docB[key].d)
       /\ docA[key].v # docB[key].v

\* ------------------------------------------------------ claims about calls
SetDone(c) == call[c].pc = "done" /\ call[c].op = "set"

\* the freshly stamped update of the set call in slot c
Stamped(c) == NewFields(call[c].inst, call[c].timestamp, call[c].updates)

\* doc merged with each of the records that the reads returned, in order
RECURSIVE MergeOver(_, _)
MergeOver(doc, reads) ==
  IF reads = <<>> THEN doc
  ELSE MergeOver(IF IsDefined(Head(reads)) THEN MergeDocuments(doc, Val(Head(reads)))
                 ELSE doc, Tail(reads))

\* the stores of instance i
StoresOf(i) == Elements(storesOf[i])

\* C1: when a set call that overlaps no other call completes, every store
\* of the instance holds the same record for the key: the merge of the
\* stamped update (tombstone cleared to false) with the records that the
\* stores held before the call.
SetLeavesMergeInEveryStore ==
  SetDone("c1") =>
    /\ Len(seen["c1"]) = NumStores(call["c1"].inst)
    /\ \A s \in StoresOf(call["c1"].inst) :
         StoreGet(s, call["c1"].key) = Some(MergeOver(Stamped("c1"), seen["c1"]))

\* C1 witness: a set has completed on an instance whose cache and shared
\* store held different records before the call
SetMergedDifferingStores ==
  /\ SetDone("c1")
  /\ Len(seen["c1"]) = 2
  /\ IsDefined(seen["c1"][1]) /\ IsDefined(seen["c1"][2])
  /\ seen["c1"][1] # seen["c1"][2]
  /\ call["c1"].updates # <<>>
  /\ \A s \in StoresOf(call["c1"].inst) :
       StoreGet(s, call["c1"].key) = Some(MergeOver(Stamped("c1"), seen["c1"]))

\* two set calls through one instance on one key have completed, each having
\* read from every store what the other read: the state before either wrote
Raced ==
  /\ SetDone("c1") /\ SetDone("c2")
  /\ call["c1"].inst = call["c2"].inst
  /\ call["c1"].key = call["c2"].key
  /\ seen["c1"] = seen["c2"]

\* the record the set call in slot c wrote
Written(c) == MergeOver(Stamped(c), seen[c])

\* C2: two overlapping set calls through one instance can both read the
\* state before either writes; once both have completed, every store of the
\* instance holds the record of one of the two calls alone, which is that
\* call's update merged with the state read and holds nothing of the other
\* call's update.
RacedSetsKeepOneUpdate ==
  Raced =>
    \A s \in StoresOf(call["c1"].inst) :
      StoreGet(s, call["c1"].key) \in {Some(Written("c1")), Some(Written("c2"))}

\* C2 witness: after two raced set calls the shared store holds a record
\* that merging in the update of the first call would change: that update
\* is lost
LostUpdate ==
  /\ Raced
  /\ LET last == storesOf[call["c1"].inst][NumStores(call["c1"].inst)]
         stored == StoreGet(last, call["c1"].key)
     IN /\ IsDefined(stored)
        /\ MergeDocuments(Val(stored), Stamped("c1")) # Val(stored)
        /\ MergeDocuments(Stamped("c1"), Val(stored)) # Val(stored)

\* C3: cross-device convergence: once every set and delete call of the two
\* devices (each with its own cache, sharing the last store) has completed,
\* get returns the same result on both devices.
DevicesConverge ==
  Quiescent => GetReturns("mobile", "key") = GetReturns("pc", "key")

\* the records held by the stores
StoredDocs == UNION { {data[s][k] : k \in DOMAIN data[s]} : s \in StoreNames }

\* C5: merge is idempotent: every record A that set or delete has stored
\* satisfies mergeDocuments(A, A) = A in every field's value, timestamp,
\* deviceId and per-device counters.
StoredDocsMergeIdempotent == \A doc \in StoredDocs : MergeDocuments(doc, doc) = doc

\* the completed calls end with a set creating the key followed by a
\* delete that found it and a set, in either order
DeleteAndEdit ==
  /\ Len(history) >= 3
  /\ history[Len(history) - 2].op = "set"
  /\ LET x == history[Len(history) - 1]
         y == history[Len(history)]
     IN \/ x.op = "delete" /\ x.ok /\ y.op = "set"
        \/ x.op = "set" /\ y.op = "delete" /\ y.ok

TheDelete ==
  IF history[Len(history)].op = "delete" THEN history[Len(history)]
  ELSE history[Len(history) - 1]
TheEdit ==
  IF history[Len(history)].op = "set" THEN history[Len(history)]
  ELSE history[Len(history) - 1]

\* C8: delete-versus-edit conflicts are resolved by timestamp: after a
\* delete and a set of an existing key, run one after the other in either
\* order, get (on the device that ran the later call) returns a record with
\* the edited fields if the delete's timestamp is the smaller one, and
\* absence if it is the larger one.
DeleteVersusEditByTimestamp ==
  (Quiescent /\ DeleteAndEdit) =>
    LET got == GetReturns(history[Len(history)].inst, "key")
    IN /\ TheDelete.timestamp < TheEdit.timestamp =>
            (IsDefined(got) /\ DOMAIN TheEdit.updates \subseteq DOMAIN Val(got))
       /\ TheDelete.timestamp > TheEdit.timestamp => ~IsDefined(got)

\* every store holding the key held, before the set call in slot c1, a
\* record whose tombstone was true with a timestamp smaller than the call's
SetAfterTombstone ==
  /\ SetDone("c1")
  /\ \E n \in 1..Len(seen["c1"]) : IsDefined(seen["c1"][n])
  /\ \A n \in 1..Len(seen["c1"]) :
       IsDefined(seen["c1"][n]) =>
         /\ IsTombstoned(Val(seen["c1"][n]))
         /\ Val(seen["c1"][n])[TOMBSTONE_KEY].t < call["c1"].timestamp
  /\ \A s \in StoreNames \ StoresOf(call["c1"].inst) :
       IsDefined(StoreGet(s, "key")) =>
         /\ IsTombstoned(Val(StoreGet(s, "key")))
         /\ Val(StoreGet(s, "key"))[TOMBSTONE_KEY].t < call["c1"].timestamp

\* the devices whose first store is one the set call in slot c1 wrote
ReadersOfWritten ==
  {i \in Instances : StoreAt(i, 0) \in StoresOf(call["c1"].inst)}

\* C9 as stated: after a set with a timestamp larger than the tombstone's,
\* isDeleted is false and get on every device returns the record with the
\* values just set.
ReviveReturnsValuesSet ==
  SetAfterTombstone =>
    /\ ~IsDeletedReturns(call["c1"].inst, "key")
    /\ \A i \in Instances :
         /\ IsDefined(GetReturns(i, "key"))
         /\ \A f \in DOMAIN call["c1"].updates :
              /\ f \in DOMAIN Val(GetReturns(i, "key"))
              /\ Val(GetReturns(i, "key"))[f] = call["c1"].updates[f]

\* C9: a set revives a soft-deleted record: after a set with a timestamp
\* larger than the tombstone's, isDeleted is false on the setting device and
\* on every device whose first store the set wrote, and get on every device
\* returns a record holding every field just set, with the value that
\* merging the value set into the stored versions of the field gives.
SetRevives ==
  SetAfterTombstone =>
    /\ \A i \in ReadersOfWritten : ~IsDeletedReturns(i, "key")
    /\ \A i \in Instances :
         /\ IsDefined(GetReturns(i, "key"))
         /\ \A f \in DOMAIN call["c1"].updates :
              /\ f \in DOMAIN Val(GetReturns(i, "key"))
              /\ Val(GetReturns(i, "key"))[f] = ToPlainObject(Written("c1"))[f]

\* C9 witness: on a 'max' field holding 2, deleted at time 1, a set of the
\* smaller value 1 at time 2 has completed: the record is back, and get
\* returns the stored 2, not the 1 just set
RevivedWithStoredValue ==
  /\ SetAfterTombstone
  /\ mergeConfig = [score |-> "max"]
  /\ call["c1"].updates = [score |-> 1]
  /\ call["c1"].timestamp = 2
  /\ \A n \in 1..Len(seen["c1"]) :
       IsDefined(seen["c1"][n]) =>
         \A key \in DOMAIN Val(seen["c1"][n]) : Val(seen["c1"][n])[key].t = 1
  /\ \A i \in Instances :
       /\ ~IsDeletedReturns(i, "key")
       /\ GetReturns(i, "key") = Some([score |-> 2])

\* the largest value that device i has set field f to, 0 when none
LargestSet(i, f) ==
  LET vals == {history[n].updates[f] :
                 n \in {m \in 1..Len(history) :
                          history[m].inst = i /\ f \in DOMAIN history[m].updates}}
  IN IF vals = {} THEN 0 ELSE CHOOSE v \in vals : \A w \in vals : w <= v

\* only set calls have completed, one of them at least setting field f
OnlySets(f) ==
  /\ Quiescent
  /\ \A n \in 1..Len(history) : history[n].op = "set"
  /\ \E n \in 1..Len(history) : f \in DOMAIN history[n].updates

\* C10: grow-only counter total: after any sequence of set calls that do
\* not overlap, get on every device returns for the 'counter' field the sum
\* over the devices of the largest value that device has set.
CounterTotalIsSumOfLargest ==
  (mergeConfig = [coins |-> "counter"] /\ OnlySets("coins")) =>
    \A i \in Instances :
      GetReturns(i, "key") =
        Some([f \in {"coins"} |-> LargestSet("mobile", f) + LargestSet("pc", f)])

\* C10 witness: both devices have set the counter, one of them a second
\* time to a value not larger than its first, and get returns the sum of
\* the two largest values
CounterResetRead ==
  /\ mergeConfig = [coins |-> "counter"]
  /\ OnlySets("coins")
  /\ Len(history) = 3
  /\ \A n \in 1..3 : "coins" \in DOMAIN history[n].updates
  /\ history[1].inst = history[3].inst /\ history[2].inst # history[1].inst
  /\ history[3].updates["coins"] <= history[1].updates["coins"]
  /\ GetReturns("mobile", "key") =
       Some([f \in {"coins"} |-> history[1].updates[f] + history[2].updates[f]])

\* ------------------------------------------------------------ counters
CounterFields == {f \in DOMAIN mergeConfig : mergeConfig[f] = "counter"}

\* the contribution store s records for device w in field f of the key, 0
\* when it records none
Contribution(s, f, w) ==
  IF "key" \in DOMAIN data[s] /\ f \in DOMAIN data[s]["key"]
     /\ HasC(data[s]["key"][f]) /\ w \in DOMAIN data[s]["key"][f].c
  THEN data[s]["key"][f].c[w] ELSE 0

\* every stored counter field carries per-device contributions, and its
\* value is their sum
ValueIsSumOfContributions ==
  \A s \in StoreNames : \A k \in DOMAIN data[s] :
    \A f \in CounterFields \cap DOMAIN data[s][k] :
      /\ HasC(data[s][k][f])
      /\ data[s][k][f].v = SumValues(data[s][k][f].c)

\* C11: for every counter field and every store, the contribution recorded
\* for each device never decreases across set, delete and get calls that do
\* not overlap, and the stored value of the field always equals the sum of
\* the recorded per-device contributions.
CounterGrowsOnly ==
  /\ []ValueIsSumOfContributions
  /\ [][\A s \in StoreNames : \A f \in CounterFields : \A w \in DeviceIds :
          Contribution(s, f, w)' >= Contribution(s, f, w)]_vars

\* C11 witness: a device has set the counter to 2 and then to 1, and every
\* store it wrote still records 2 for it
CounterKeptLargerContribution ==
  /\ Quiescent
  /\ Len(history) >= 2
  /\ \E n \in 1..(Len(history) - 1) :
       /\ history[n].op = "set" /\ history[n + 1].op = "set"
       /\ history[n].inst = history[n + 1].inst
       /\ "coins" \in DOMAIN history[n].updates
       /\ "coins" \in DOMAIN history[n + 1].updates
       /\ history[n].updates["coins"] = 2 /\ history[n + 1].updates["coins"] = 1
       /\ n + 1 = Len(history)
       /\ \A s \in StoresOf(history[n].inst) :
            Contribution(s, "coins", DeviceIdOf(history[n].inst)) = 2

\* ----------------------------------------------------------- max and min
\* the values the completed calls have set field f to
ValuesSet(f) ==
  {history[n].updates[f] : n \in {m \in 1..Len(history) : f \in DOMAIN history[m].updates}}

Largest(vals) == CHOOSE v \in vals : \A w \in vals : w <= v
Smallest(vals) == CHOOSE v \in vals : \A w \in vals : v <= w

\* C12: for a field configured 'max' (resp. 'min'), after any sequence of
\* set calls that do not overlap, by any devices, get on every device
\* returns the largest (resp. smallest) value ever set for the field,
\* whatever the order and the timestamps of the sets.
GetReturnsExtremeOfSets ==
  \A f \in DOMAIN mergeConfig :
    (mergeConfig[f] \in {"max", "min"} /\ OnlySets(f)) =>
      \A i \in Instances :
        GetReturns(i, "key") =
          Some([x \in {f} |-> IF mergeConfig[f] = "max" THEN Largest(ValuesSet(f))
                              ELSE Smallest(ValuesSet(f))])

\* C12 witness: on a 'max' field one device has set 2 at time 1, the other
\* 1 at time 2, and get returns 2 on both: the older value
OlderLargerValueRead ==
  /\ mergeConfig = [score |-> "max"]
  /\ OnlySets("score")
  /\ Len(history) = 2
  /\ history[1].updates = [score |-> 2] /\ history[1].timestamp = 1
  /\ history[2].updates = [score |-> 1] /\ history[2].timestamp = 2
  /\ history[1].inst # history[2].inst
  /\ \A i \in Instances : GetReturns(i, "key") = Some([score |-> 2])

\* ---------------------------------------------------------------- union
\* the elements of all the collections the completed calls have set field f to
AllElementsSet(f) == UNION {Elements(arr) : arr \in ValuesSet(f)}

\* C13: for a field configured 'union', after one or more set calls that do
\* not overlap, by any devices on a shared store, get on every device
\* returns a collection holding exactly the elements of the union of all
\* the collections set, each element once.
GetReturnsUnionWithoutDuplicates ==
  (mergeConfig = [tags |-> "union"] /\ OnlySets("tags")) =>
    \A i \in Instances :
      /\ IsDefined(GetReturns(i, "key"))
      /\ "tags" \in DOMAIN Val(GetReturns(i, "key"))
      /\ Elements(Val(GetReturns(i, "key"))["tags"]) = AllElementsSet("tags")
      /\ Len(Val(GetReturns(i, "key"))["tags"]) = Cardinality(AllElementsSet("tags"))

\* ------------------------------------------------------- mixed strategies
\* of the two completed set calls, the one with the later timestamp and the
\* other one
LaterWrite == IF history[1].timestamp > history[2].timestamp THEN history[1] ELSE history[2]
EarlierWrite == IF history[1].timestamp > history[2].timestamp THEN history[2] ELSE history[1]

\* the two writers have each completed one set, at different timestamps
TwoWritesDone ==
  /\ Quiescent
  /\ Len(history) = 2
  /\ history[1].timestamp # history[2].timestamp

\* C14: mixed strategies end to end: after two writers, each with its own
\* cache and sharing the last store, configured {name: lww, highScore: max,
\* coins: counter, achievements: union}, have written partial updates one
\* after the other at different timestamps, get on both returns the fields
\* written with name = the value of the write with the later timestamp,
\* highScore = the larger value, coins = the sum and achievements = the union.
MixedStrategiesMerge ==
  TwoWritesDone =>
    \A i \in Instances :
      /\ IsDefined(GetReturns(i, "key"))
      /\ LET got == Val(GetReturns(i, "key"))
         IN /\ DOMAIN got = DOMAIN history[1].updates \cup DOMAIN history[2].updates
            /\ "name" \in DOMAIN got =>
                 got["name"] = IF "name" \in DOMAIN LaterWrite.updates
                               THEN LaterWrite.updates["name"]
                               ELSE EarlierWrite.updates["name"]
            /\ "highScore" \in DOMAIN got =>
                 got["highScore"] = Largest(ValuesSet("highScore"))
            /\ "coins" \in DOMAIN got =>
                 got["coins"] = LargestSet("mobile", "coins") + LargestSet("pc", "coins")
            /\ "achievements" \in DOMAIN got =>
                 Elements(got["achievements"]) = AllElementsSet("achievements")

\* C14 witness: both writers have written all four fields, the first one
\* the larger highScore, and get on both returns the merged record
MixedBothWroteAll ==
  /\ TwoWritesDone
  /\ history[1].timestamp < history[2].timestamp
  /\ \A n \in 1..2 : DOMAIN history[n].updates = DOMAIN MixedConfig
  /\ history[1].updates["name"] # history[2].updates["name"]
  /\ history[1].updates["highScore"] > history[2].updates["highScore"]
  /\ history[1].updates["achievements"] = <<1>>
  /\ history[2].updates["achievements"] = <<2>>
  /\ \A i \in Instances :
       /\ IsDefined(GetReturns(i, "key"))
       /\ Val(GetReturns(i, "key"))["name"] = history[2].updates["name"]
       /\ Val(GetReturns(i, "key"))["highScore"] = history[1].updates["highScore"]
       /\ Val(GetReturns(i, "key"))["coins"] =
            history[1].updates["coins"] + history[2].updates["coins"]
       /\ Elements(Val(GetReturns(i, "key"))["achievements"]) = {1, 2}

\* -------------------------------------------------------- cache promotion
GetDone(c) == call[c].pc = "done" /\ call[c].op = "get"

\* the records that the reads returned, merged in order; undefined when no
\* read returned a record
RECURSIVE MergeReads(_, _)
MergeReads(acc, reads) ==
  IF reads = <<>> THEN acc
  ELSE MergeReads(IF ~IsDefined(Head(reads)) THEN acc
                  ELSE IF IsDefined(acc)
                  THEN Some(MergeDocuments(Val(acc), Val(Head(reads))))
                  ELSE Head(reads), Tail(reads))

\* the position (from 1) of the first read that returned a record, 0 when
\* none did
FirstHeld(reads) ==
  LET held == {n \in 1..Len(reads) : IsDefined(reads[n])}
  IN IF held = {} THEN 0 ELSE CHOOSE n \in held : \A m \in held : n <= m

\* a get has completed that found its first record in a store after the
\* first one
Promoted ==
  /\ GetDone("c1")
  /\ Len(seen["c1"]) = NumStores(call["c1"].inst)
  /\ FirstHeld(seen["c1"]) > 1

\* when Promoted: every store before the first that held a record holds the
\* merge of the records of all stores
CachesHoldMerged ==
  \A n \in 1..(FirstHeld(seen["c1"]) - 1) :
    StoreGet(storesOf[call["c1"].inst][n], call["c1"].key) = MergeReads(Undefined, seen["c1"])

\* C15 as stated: after a get whose first record was at index h > 0 every
\* store at an index below h holds the merge of the records of all stores,
\* and get returns the plain projection of that merged record.
PromotionReturnsProjection ==
  Promoted =>
    /\ CachesHoldMerged
    /\ call["c1"].ret = Some(ToPlainObject(Val(MergeReads(Undefined, seen["c1"]))))

\* C15: cache promotion: after a get whose first record was at index h > 0
\* every store at an index below h holds the merge of the records of all
\* stores, and get returns the plain projection of that merged record, or
\* absence when the tombstone of the merged record is true.
PromotionFillsCaches ==
  Promoted =>
    /\ CachesHoldMerged
    /\ call["c1"].ret =
         IF IsTombstoned(Val(MergeReads(Undefined, seen["c1"]))) THEN Undefined
         ELSE Some(ToPlainObject(Val(MergeReads(Undefined, seen["c1"]))))

\* C15 witness: a get on the three-tier device found the record in the last
\* store only, wrote it to both caches and returned its fields
PromotedFromLastStore ==
  /\ Promoted
  /\ FirstHeld(seen["c1"]) = 3
  /\ CachesHoldMerged
  /\ IsDefined(call["c1"].ret)
  /\ "name" \in DOMAIN Val(call["c1"].ret)

\* ------------------------------------------------- get of a deleted record
\* a get has completed whose reads, merged, give a record with tombstone true
GotTombstoned ==
  /\ GetDone("c1")
  /\ Len(seen["c1"]) = NumStores(call["c1"].inst)
  /\ IsDefined(MergeReads(Undefined, seen["c1"]))
  /\ IsTombstoned(Val(MergeReads(Undefined, seen["c1"])))

\* C17: when the merge of all stores' records for a key has tombstone true,
\* get returns absence, and the merged record (tombstone and all other
\* fields) is still written to every store before the first that held a
\* record.
TombstonedGetStillPromotes ==
  GotTombstoned => (call["c1"].ret = Undefined /\ CachesHoldMerged)

\* C17 witness: a get on the three-tier device found a tombstoned record
\* with a name field in the last store only, returned absence and left the
\* record in both caches
TombstonePromoted ==
  /\ GotTombstoned
  /\ FirstHeld(seen["c1"]) = 3
  /\ call["c1"].ret = Undefined
  /\ \A n \in 1..2 :
       /\ IsDefined(StoreGet(storesOf[call["c1"].inst][n], "key"))
       /\ IsTombstoned(Val(StoreGet(storesOf[call["c1"].inst][n], "key")))
       /\ "name" \in DOMAIN Val(StoreGet(storesOf[call["c1"].inst][n], "key"))

\* ------------------------------------------------- the tiers of a device
\* every store of every device holds, for the key, what the other stores of
\* the device hold
StoresAgree ==
  \A i \in Instances : \A s, t \in StoresOf(i) : StoreGet(s, "key") = StoreGet(t, "key")

\* C16: every store layer eventually observes the same merged state: once
\* the writes have stopped, the get calls leave every store of each device
\* holding the same record, for good.
StoresEventuallyAgree == <>[]StoresAgree

\* ------------------------------------------------------------- delete
\* no store of device i holds a record for the key
NoStoreHolds(i) == \A s \in StoresOf(i) : "key" \notin DOMAIN data[s]

\* C18: delete(key) on a key for which no store holds a record returns
\* false and leaves every store unchanged: every step of such a call, from
\* its beginning to its return, changes no store, issues no write and, when
\* it returns, returns false.
DeleteOfUnknownKeyIsNoOp ==
  [][(/\ call'["c1"] # call["c1"]
      /\ call'["c1"].op = "delete"
      /\ call'["c1"].pc # "idle"
      /\ NoStoreHolds(call'["c1"].inst))
     => (/\ data' = data
         /\ call'["c1"].pc # "writing"
         /\ call'["c1"].pc = "done" => ~call'["c1"].retBool)]_vars

\* C18 witness: a delete has read every store of its device, found no
\* record and returned false, and no store holds anything
DeleteFoundNothing ==
  /\ call["c1"].pc = "done" /\ call["c1"].op = "delete"
  /\ ~call["c1"].retBool
  /\ Len(seen["c1"]) = NumStores(call["c1"].inst)
  /\ \A n \in 1..Len(seen["c1"]) : ~IsDefined(seen["c1"][n])
  /\ \A s \in StoreNames : data[s] = <<>>

\* a delete has completed that read a record from one store at least
DeletedHeldKey ==
  /\ call["c1"].pc = "done" /\ call["c1"].op = "delete"
  /\ Len(seen["c1"]) = NumStores(call["c1"].inst)
  /\ \E n \in 1..Len(seen["c1"]) : IsDefined(seen["c1"][n])

\* what getRaw(key) on device i returns when no other call overlaps it
GetRawReturns(i, k) == MergedAll(i, k)

\* C19: delete(key) on a key held by at least one store returns true and
\* writes to every store the merge of all stores' records with only the
\* tombstone replaced by value true (at the call's timestamp, by the
\* device): every other field of the merged record is there with unchanged
\* value, timestamp and deviceId, getRaw returns them and get returns
\* absence.
DeleteKeepsFields ==
  DeletedHeldKey =>
    LET cur == call["c1"]
        pre == Val(MergeReads(Undefined, seen["c1"]))
        kept == DOMAIN pre \ {TOMBSTONE_KEY}
    IN /\ cur.retBool
       /\ \A s \in StoresOf(cur.inst) :
            /\ IsDefined(StoreGet(s, cur.key))
            /\ DOMAIN Val(StoreGet(s, cur.key)) = kept \cup {TOMBSTONE_KEY}
            /\ Val(StoreGet(s, cur.key))[TOMBSTONE_KEY] =
                 [v |-> TRUE, t |-> cur.timestamp, d |-> DeviceIdOf(cur.inst)]
            /\ \A f \in kept : Val(StoreGet(s, cur.key))[f] = pre[f]
       /\ GetReturns(cur.inst, cur.key) = Undefined
       /\ IsDefined(GetRawReturns(cur.inst, cur.key))
       /\ \A f \in kept :
            /\ f \in DOMAIN Val(GetRawReturns(cur.inst, cur.key))
            /\ Val(GetRawReturns(cur.inst, cur.key))[f] = pre[f]

\* C19 witness: a delete has completed on a device whose cache and shared
\* store held different records, both with a field besides the tombstone
DeletedDifferingStores ==
  /\ DeletedHeldKey
  /\ call["c1"].retBool
  /\ Len(seen["c1"]) = 2
  /\ IsDefined(seen["c1"][1]) /\ IsDefined(seen["c1"][2])
  /\ seen["c1"][1] # seen["c1"][2]
  /\ DOMAIN Val(seen["c1"][1]) \ {TOMBSTONE_KEY} # {}
  /\ GetReturns(call["c1"].inst, "key") = Undefined

\* ----------------------------------------------------------- hardDelete
\* the last call that completed, of set, delete and hardDelete, is a
\* hardDelete of device i
LastWasHardDeleteBy(i) ==
  /\ history # <<>>
  /\ history[Len(history)].op = "hardDelete"
  /\ history[Len(history)].inst = i

\* the call in slot c1 has returned to device i
Returned(i, op) ==
  call["c1"].pc = "done" /\ call["c1"].inst = i /\ call["c1"].op = op

\* C20: after a hardDelete that overlapped no other call, and until the
\* next set or delete, no store of the device holds a record for the key,
\* and on that device get and getRaw return absence and has and isDeleted
\* return false.
HardDeleteRemovesEverywhere ==
  \A i \in Instances :
    (Quiescent /\ LastWasHardDeleteBy(i)) =>
      /\ NoStoreHolds(i)
      /\ GetReturns(i, "key") = Undefined
      /\ GetRawReturns(i, "key") = Undefined
      /\ ~HasReturns(i, "key")
      /\ ~IsDeletedReturns(i, "key")
      /\ (Returned(i, "get") \/ Returned(i, "getRaw")) => call["c1"].ret = Undefined
      /\ (Returned(i, "has") \/ Returned(i, "isDeleted")) => ~call["c1"].retBool

\* C20 witness: a device has set, deleted and then hard-deleted the key, the
\* hardDelete returning true, and its isDeleted call has then returned false
HardDeletedTombstone ==
  /\ Len(history) = 3
  /\ history[1].op = "set" /\ history[2].op = "delete" /\ history[2].ok
  /\ history[3].op = "hardDelete" /\ history[3].ok
  /\ \A n \in 1..3 : history[n].inst = "mobile"
  /\ Returned("mobile", "isDeleted")
  /\ ~call["c1"].retBool
  /\ NoStoreHolds("mobile")

\* ---------------------------------------------------------------- getRaw
\* a getRaw call has returned, having read every store of its device
GetRawDone ==
  /\ call["c1"].pc = "done" /\ call["c1"].op = "getRaw"
  /\ Len(seen["c1"]) = NumStores(call["c1"].inst)

\* C21: getRaw(key) returns the merge of the records of all stores that hold
\* the key, in the internal tagged form and without the tombstone filter:
\* for a soft-deleted key it returns the tombstoned record (not absence),
\* and it returns absence only when no store holds a record.
GetRawReturnsMergeOfAll ==
  GetRawDone =>
    LET cur == call["c1"]
    IN /\ \A n \in 1..NumStores(cur.inst) :
            seen["c1"][n] = StoreGet(storesOf[cur.inst][n], cur.key)
       /\ cur.ret = MergeReads(Undefined, seen["c1"])
       /\ cur.ret = Undefined <=> NoStoreHolds(cur.inst)
       /\ (Quiescent /\ history # <<>> /\ history[Len(history)].op = "delete"
           /\ history[Len(history)].ok
           /\ storesOf[history[Len(history)].inst][1] \in StoresOf(cur.inst)) =>
            /\ IsDefined(cur.ret)
            /\ Val(cur.ret)[TOMBSTONE_KEY].v = TRUE
            /\ GetReturns(cur.inst, cur.key) = Undefined

\* C21 witness: a device whose cache holds the record and whose shared store
\* holds the other device's tombstoned record has called getRaw, which
\* returned the tombstoned record with its name field; get returns absence
RawOfDeletedRead ==
  /\ GetRawDone
  /\ NumStores(call["c1"].inst) = 2
  /\ IsDefined(seen["c1"][1]) /\ IsDefined(seen["c1"][2])
  /\ ~IsTombstoned(Val(seen["c1"][1]))
  /\ IsTombstoned(Val(seen["c1"][2]))
  /\ IsDefined(call["c1"].ret)
  /\ IsTombstoned(Val(call["c1"].ret))
  /\ "name" \in DOMAIN Val(call["c1"].ret)
  /\ Val(call["c1"].ret) # Val(seen["c1"][1])
  /\ GetReturns(call["c1"].inst, "key") = Undefined

\* ------------------------------------------------------ has and isDeleted
\* the position (from 1) of the first store of device i, in cascade order,
\* that holds a record for the key; 0 when none does
FirstHolder(i) ==
  LET held == {n \in 1..NumStores(i) : "key" \in DOMAIN data[storesOf[i][n]]}
  IN IF held = {} THEN 0 ELSE CHOOSE n \in held : \A m \in held : n <= m

\* the tombstone value of the record of that store is true
FirstHolderTombstoned(i) ==
  /\ FirstHolder(i) # 0
  /\ LET doc == data[storesOf[i][FirstHolder(i)]]["key"]
     IN TOMBSTONE_KEY \in DOMAIN doc /\ doc[TOMBSTONE_KEY].v = TRUE

\* the number of reads of a call that stops at the first store holding a
\* record
ReadsUpToFirstHolder(i) == IF FirstHolder(i) = 0 THEN NumStores(i) ELSE FirstHolder(i)

HasAgreesWithGet ==
  Quiescent => \A i \in Instances : HasReturns(i, "key") = IsDefined(GetReturns(i, "key"))

\* ------------------------------------------------ a store rejects a write
FanOutOps == {"set", "delete"}

\* the write fan-out of the set or delete call in slot c is under way
InFanOut(c) == call[c].op \in FanOutOps /\ call[c].pc \in {"writing", "rejected"}

\* the stores whose write the call in slot c has had rejected
RejectingStores(c) == {StoreAt(call[c].inst, j) : j \in call[c].rejected}

\* a set or delete call has thrown exactly when a store has rejected its
\* write, and the error it throws is the error of such a store
ThrowsRejection ==
  \A c \in Calls :
    call[c].op \in FanOutOps =>
      /\ call[c].pc \in {"rejected", "failed"} <=> call[c].rejected # {}
      /\ call[c].rejected # {} =>
           (IsDefined(call[c].error) /\ Val(call[c].error) \in RejectingStores(c))
      /\ call[c].rejected = {} => call[c].error = Undefined

\* a step of the fan-out of the call in slot c settles one pending write: an
\* accepted one leaves the merged record in its store, a rejected one leaves
\* every store as it was; no write is issued again and none is undone
SettlesOneWrite(c) ==
  \E j \in call[c].pending :
    /\ call'[c].pending = call[c].pending \ {j}
    /\ call'[c].merged = call[c].merged
    /\ \/ /\ call'[c].rejected = call[c].rejected
          /\ data' = [data EXCEPT ![StoreAt(call[c].inst, j)] =
                        Put(@, call[c].key, Val(call[c].merged))]
       \/ /\ call'[c].rejected = call[c].rejected \cup {j}
          /\ data' = data
          /\ call'[c].pc \in {"rejected", "failed"}

\* C24: if a store's set call rejects during the write fan-out of set or
\* delete, the whole operation fails with that store's error, nothing is
\* rolled back and nothing is retried: every store whose write was accepted
\* holds the new merged record while the failing store keeps what it held
\* before.
RejectedWriteFailsTheCall ==
  /\ []ThrowsRejection
  /\ [][\A c \in Calls :
          (InFanOut(c) /\ call'[c] # call[c]) => SettlesOneWrite(c)]_vars

\* C24 witness: a set on three empty stores has thrown the error of the
\* second store; the first and the third hold the new record, the second
\* holds nothing, as before
SetFailedOnSecondStore ==
  /\ call["c1"].pc = "failed" /\ call["c1"].op = "set"
  /\ call["c2"].pc = "idle"
  /\ call["c1"].rejected = {1}
  /\ call["c1"].error = Some("pcCache")
  /\ seen["c1"] = <<Undefined, Undefined, Undefined>>
  /\ "name" \in DOMAIN call["c1"].updates
  /\ StoreGet("mobileCache", "key") = Some(Stamped("c1"))
  /\ StoreGet("sharedRemote", "key") = Some(Stamped("c1"))
  /\ StoreGet("pcCache", "key") = Undefined

\* ------------------------------------------- healing after a failed fan-out
\* the set or delete call in slot c has thrown because a store rejected its
\* write
FanOutFailed(c) == call[c].op \in FanOutOps /\ call[c].pc \in {"rejected", "failed"}

\* the reads of the call in slot c found the stores holding different things
ReadDifferingStores(c) == \E m, n \in 1..Len(seen[c]) : seen[c][m] # seen[c][n]

\* this step completes the call of op in slot c, begun after the call in the
\* other slot threw, and whose reads found the stores differing
CompletesAfterFailure(c, op) ==
  /\ call[c].pc # "done" /\ call'[c].pc = "done" /\ call'[c].op = op
  /\ FanOutFailed(OtherCall(c))
  /\ ReadDifferingStores(c)

\* C25: self-healing by set: after a set or delete whose write fan-out
\* failed on some stores and left the stores holding different records, a
\* later set on the same key that completes successfully leaves every store
\* holding the same record, which contains the merge of everything any store
\* held.
SetHealsFailedFanOut ==
  [][\A c \in Calls :
       CompletesAfterFailure(c, "set") =>
         \A s \in StoresOf(call[c].inst) :
           /\ call[c].key \in DOMAIN data'[s]
           /\ data'[s][call[c].key] = MergeOver(Stamped(c), seen[c])]_vars

\* C26: self-healing by get: after a set or delete whose write fan-out
\* failed on some stores and left the stores holding different records, a
\* later get on the same key that completes successfully leaves every store
\* holding the same merged record.
GetHealsFailedFanOut ==
  [][\A c \in Calls :
       CompletesAfterFailure(c, "get") =>
         \A s \in StoresOf(call[c].inst) :
           /\ call[c].key \in DOMAIN data'[s]
           /\ Some(data'[s][call[c].key]) = MergeReads(Undefined, seen'[c])]_vars

\* ------------------------------------------------------- the constructor
\* C27: constructing the facade with zero stores fails immediately with the
\* error 'KeyvCRDT requires at least one store' and yields no instance;
\* construction with one or more stores succeeds.
ConstructorRequiresStore ==
  out # <<>> =>
    IF Len(docA) = 0
    THEN /\ out.error = Some("KeyvCRDT requires at least one store")
         /\ out.instance = Undefined
         /\ storesOf["mobile"] = <<>>
    ELSE /\ out.error = Undefined
         /\ IsDefined(out.instance)
         /\ Val(out.instance).stores = docA
         /\ storesOf["mobile"] = docA

\* C27 witness: the constructor has been called with no store and has thrown
ConstructedWithoutStores ==
  /\ out # <<>>
  /\ docA = <<>>
  /\ out.error = Some("KeyvCRDT requires at least one store")
  /\ out.instance = Undefined

\* ------------------------------------------------------------------ clear
\* the stores of device i that provide clear, and those that do not
ClearableOf(i) == StoresOf(i) \cap StoresWithClear

\* C28: clear() empties every store of the instance that provides a clear
\* operation, for all keys, and leaves stores that do not provide one
\* unchanged: when clear returns every such store of the instance holds no
\* key, and no step of a clear call changes any other store.
ClearEmptiesClearableStores ==
  /\ [](\A i \in Instances :
          Returned(i, "clear") => \A s \in ClearableOf(i) : DOMAIN data[s] = {})
  /\ [][(call'["c1"] # call["c1"] /\ call'["c1"].op = "clear") =>
          \A s \in StoreNames \ ClearableOf(call'["c1"].inst) : data'[s] = data[s]]_vars

\* C28 witness: after sets on two keys the three-tier device has called
\* clear, which has returned: its first and last store hold nothing, and the
\* middle one, which has no clear, still holds both keys
ClearedAllButMiddle ==
  /\ Returned("mobile", "clear")
  /\ data["mobileCache"] = <<>>
  /\ data["sharedRemote"] = <<>>
  /\ DOMAIN data["pcCache"] = {"key", "other"}

\* ------------------------------------------- read all, then write all
\* the set call in slot c1 is in progress or has returned
InSet == call["c1"].op = "set" /\ call["c1"].pc # "idle"

\* the reads made so far by the set call, and the writes not yet carried
\* out, at each point of the call: no write before the last read
ReadsBeforeWrites ==
  InSet =>
    LET cur == call["c1"]
        n == NumStores(cur.inst)
    IN /\ cur.pc = "reading" => (Len(seen["c1"]) = cur.idx /\ cur.idx < n /\ cur.pending = {})
       /\ cur.pc = "writing" =>
            (Len(seen["c1"]) = n /\ cur.pending # {} /\ cur.pending \subseteq 0..(n - 1))
       /\ cur.pc = "done" => (Len(seen["c1"]) = n /\ cur.pending = {})
       /\ cur.pc \in {"writing", "done"} =>
            cur.merged = Some(MergeOver(Stamped("c1"), seen["c1"]))

\* a step of the set call while it reads: the next store in cascade order
\* is read and no store changes; the writes are issued, one per store, with
\* the read of the last store
ReadStep ==
  LET cur == call["c1"]
      n == NumStores(cur.inst)
  IN /\ data' = data
     /\ seen'["c1"] = Append(seen["c1"], StoreGet(storesOf[cur.inst][Len(seen["c1"]) + 1], cur.key))
     /\ call'["c1"].pending = IF Len(seen'["c1"]) = n THEN 0..(n - 1) ELSE {}
     /\ call'["c1"].pc = IF Len(seen'["c1"]) = n THEN "writing" ELSE "reading"

\* a step of the set call while it writes: one of the writes issued is
\* carried out, with the merged record, and nothing is read
WriteStep ==
  LET cur == call["c1"]
  IN /\ seen'["c1"] = seen["c1"]
     /\ call'["c1"].merged = cur.merged
     /\ \E j \in cur.pending :
          /\ call'["c1"].pending = cur.pending \ {j}
          /\ data' = [data EXCEPT ![storesOf[cur.inst][j + 1]] =
                        Put(@, cur.key, MergeOver(Stamped("c1"), seen["c1"]))]

Part(c, w) == IF w \in DOMAIN c THEN c[w] ELSE 0

\* C30: projection: when get returns a record, its output has exactly one
\* property per non-tombstone field of the merged record and no tombstone
\* property; the property equals the field's stored value, except for a
\* field carrying per-writer contributions, whose property equals the sum
\* of those contributions.
GetProjectsFields ==
  (out # <<>> /\ IsDefined(out.got)) =>
    LET plain == Val(out.got)
    IN /\ DOMAIN plain = DOMAIN docA \ {"_deleted"}
       /\ \A f \in DOMAIN plain :
            plain[f] = IF "c" \in DOMAIN docA[f]
                       THEN Part(docA[f].c, IdA) + Part(docA[f].c, IdAB) + Part(docA[f].c, IdB)
                       ELSE docA[f].v

\* C30 witness: get has returned the projection of a record with tombstone
\* false and a counter field whose stored value 1 is not the sum 4 of its
\* two contributions: the output has the one property coins = 4
ProjectedCounterSum ==
  /\ out # <<>>
  /\ DOMAIN docA = {"_deleted", "coins"}
  /\ docA["_deleted"].v = FALSE
  /\ docA["coins"].v = 1
  /\ docA["coins"].c = (IdA :> 2) @@ (IdB :> 2)
  /\ out.got = Some([coins |-> 4])

\* ------------------------------------- timestamp and deviceId of a merge
\* the fields merged by max, min, counter, union or the custom function
ComputedFields ==
  {key \in DOMAIN mergeConfig :
     mergeConfig[key] \in {"max", "min", "counter", "union", CustomStrategy}}

\* field m is stamped as the merge of versions a and b is: the later of the
\* two timestamps, and the deviceId of the version that has it
StampedAsLater(m, a, b) ==
  /\ m.t = (IF a.t >= b.t THEN a.t ELSE b.t)
  /\ a.t > b.t => m.d = a.d
  /\ b.t > a.t => m.d = b.d
  /\ m.d \in {a.d, b.d}

\* C31: for the strategies max, min, counter, union and custom function,
\* the merged field's timestamp is the maximum of the two input timestamps
\* and its deviceId is the deviceId of the input that had the greater
\* timestamp, independently of which input's value was selected.
MergedStampIsOfLaterInput ==
  Merged =>
    \A key \in ComputedFields \cap SharedFields :
      /\ StampedAsLater(out.ab[key], docA[key], docB[key])
      /\ StampedAsLater(out.ba[key], docA[key], docB[key])

\* C31 witness: on a 'max' field the older version, of another device, has
\* the larger value: the merge has that value with the timestamp and the
\* deviceId of the newer version
OlderValueNewerStamp ==
  /\ Merged
  /\ mergeConfig = [score |-> "max"]
  /\ "score" \in SharedFields
  /\ docA["score"].v > docB["score"].v
  /\ docA["score"].t < docB["score"].t
  /\ docA["score"].d # docB["score"].d
  /\ out.ab["score"] = [v |-> docA["score"].v, t |-> docB["score"].t, d |-> docB["score"].d]

\* ------------------------------------------------- records are not removed
\* the step is one of a hardDelete or clear call of a device that uses store s
RemovalStep(s) ==
  \E c \in Calls :
    /\ call[c].op \in {"hardDelete", "clear"}
    /\ call[c].pc = "writing"
    /\ call'[c] # call[c]
    /\ s \in StoresOf(call[c].inst)

\* C32: a record is never removed by merging: a store that holds a record
\* for a key holds one after every step of a get, set, delete, has, isDeleted
\* or getRaw call, overlapping or not; only a step of hardDelete or clear
\* makes a store stop holding it.
RecordsStayUntilRemoved ==
  [][\A s \in StoreNames : \A k \in DOMAIN data[s] :
       k \in DOMAIN data'[s] \/ RemovalStep(s)]_vars

\* C32 witness: after a set and a delete by the same device, and a get by it
\* that returned absence, each of its stores still holds a record
HeldAfterDeleteAndGet ==
  /\ Len(history) = 2
  /\ history[1].op = "set" /\ history[2].op = "delete" /\ history[2].ok
  /\ history[1].inst = history[2].inst
  /\ \E c \in Calls :
       /\ GetDone(c) /\ call[c].inst = history[2].inst
       /\ call[c].ret = Undefined
       /\ Free(OtherCall(c))
  /\ \A s \in StoresOf(history[2].inst) :
       "key" \in DOMAIN data[s] /\ IsTombstoned(data[s]["key"])

\* ---------------------------------------------------- the tombstone's merge
\* m is the last write of a and b: the later one, at equal timestamps the
\* one of the lexicographically larger deviceId
LastWriteOf(m, a, b) ==
  /\ a.t > b.t => m = a
  /\ b.t > a.t => m = b
  /\ (a.t = b.t /\ StrGreater(a.d, b.d)) => m = a
  /\ (a.t = b.t /\ StrGreater(b.d, a.d)) => m = b
  /\ m \in {a, b}

\* C33: the tombstone field is always merged by LWW (larger timestamp, then
\* lexicographically larger deviceId), whatever the merge configuration
\* says, including a configuration that names the tombstone field itself.
TombstoneAlwaysLww ==
  (Merged /\ TOMBSTONE_KEY \in SharedFields) =>
    /\ LastWriteOf(out.ab[TOMBSTONE_KEY], docA[TOMBSTONE_KEY], docB[TOMBSTONE_KEY])
    /\ LastWriteOf(out.ba[TOMBSTONE_KEY], docA[TOMBSTONE_KEY], docB[TOMBSTONE_KEY])

\* C33 witness: the configuration names the tombstone field 'max'; an older
\* tombstone true merged with a newer false gives the newer false
ConfiguredTombstoneMergedLww ==
  /\ Merged
  /\ mergeConfig = [x \in {TOMBSTONE_KEY} |-> "max"]
  /\ docA[TOMBSTONE_KEY].v = TRUE /\ docB[TOMBSTONE_KEY].v = FALSE
  /\ docA[TOMBSTONE_KEY].t < docB[TOMBSTONE_KEY].t
  /\ out.ab[TOMBSTONE_KEY] = docB[TOMBSTONE_KEY]
  /\ out.ba[TOMBSTONE_KEY] = docB[TOMBSTONE_KEY]

\* -------------------------------------------------------- first writer wins
\* the completed sets of field f, and those of them with the smallest timestamp
SetsOf(f) == {n \in 1..Len(history) : f \in DOMAIN history[n].updates}
EarliestSetsOf(f) ==
  {n \in SetsOf(f) : \A m \in SetsOf(f) : history[n].timestamp <= history[m].timestamp}

\* C34: with the custom first-writer-wins merge function, after any
\* sequence of set calls that do not overlap, by any devices on a shared
\* store, get on every device returns the value of the set with the smallest
\* timestamp.
GetReturnsFirstWrite ==
  (storesOf = SharedStore /\ OnlySets("value")) =>
    \A i \in Instances :
      \E n \in EarliestSetsOf("value") :
        GetReturns(i, "key") = Some([value |-> history[n].updates["value"]])

\* ------------------------------------------ overlapping sets, store by store
\* both slots hold a completed set call of the same instance on the same
\* key; the call in slot c2 began while the one in slot c1 was in progress
BothSetsDone ==
  /\ SetDone("c1") /\ SetDone("c2")
  /\ call["c1"].inst = call["c2"].inst
  /\ call["c1"].key = call["c2"].key

\* C35: even when two set calls on the same key through the same instance
\* overlap and their store writes interleave in any order, once both have
\* completed every store of the instance holds the same record.
OverlappedSetsLeaveStoresEqual ==
  BothSetsDone =>
    \A s, r \in StoresOf(call["c1"].inst) :
      StoreGet(s, call["c1"].key) = StoreGet(r, call["c1"].key)

\* ------------------------------------------------------ what the reads write
ReadOnlyOps == {"has", "isDeleted", "getRaw"}

\* the index (from 0) of the first store whose read, in the call of slot c,
\* returned a record; the number of reads when none did
FirstHitSeen(c) ==
  LET hits == {n \in 1..Len(seen[c]) : IsDefined(seen[c][n])}
  IN IF hits = {} THEN Len(seen[c])
     ELSE (CHOOSE n \in hits : \A m \in hits : n <= m) - 1

\* the indexes (from 0) of store s in this.stores of the caller of slot c
IndexesOf(c, s) ==
  {j \in 0..(NumStores(call[c].inst) - 1) : StoreAt(call[c].inst, j) = s}

\* C36: has, isDeleted and getRaw never write to any store; get writes only
\* to stores below the first store that held a record, and a store already
\* holding a record for the key is never modified by get.
ReadsWriteOnlyBelowFirstHit ==
  [][\A c \in Calls : \A s \in StoreNames :
       (call'[c] # call[c] /\ data'[s] # data[s]) =>
         /\ call[c].op \notin ReadOnlyOps
         /\ call[c].op = "get" =>
              /\ \E j \in IndexesOf(c, s) : j < FirstHitSeen(c)
              /\ call[c].key \notin DOMAIN data[s]]_vars

\* the same for calls that overlap no other call, with the writes get
\* issues: all of them are below the first store whose read returned a
\* record, and each one changes a store that held no record for the key
ReadsWriteOnlyBelowFirstHitAlone ==
  [][/\ call'["c1"].op \in ReadOnlyOps => call'["c1"].pending = {}
     /\ call'["c1"].op = "get" =>
          \A j \in call'["c1"].pending : j < FirstHitSeen("c1")'
     /\ \A s \in StoreNames :
          data'[s] # data[s] =>
            /\ call["c1"].op \notin ReadOnlyOps
            /\ call["c1"].op = "get" =>
                 /\ \E j \in IndexesOf("c1", s) : j < FirstHitSeen("c1")
                 /\ call["c1"].key \notin DOMAIN data[s]
                 /\ \A r \in StoreNames \ {s} : data'[r] = data[r]]_vars

\* ------------------------------------------------- unconditional tombstone
\* the call that has just completed is a delete that returned true
DeletedTrue == Returned(call["c1"].inst, "delete") /\ call["c1"].retBool

\* the tombstone that the delete call of slot c1 stamps
OwnTombstone ==
  [v |-> TRUE, t |-> call["c1"].timestamp, d |-> DeviceIdOf(call["c1"].inst)]

RecordsRead == {n \in 1..Len(seen["c1"]) : IsDefined(seen["c1"][n])}

\* a set has just completed, and every record it read carried a tombstone
\* with value true and exactly the set's timestamp
SetOnSameTimeTombstone ==
  /\ SetDone("c1")
  /\ RecordsRead # {}
  /\ \A n \in RecordsRead :
       /\ Val(seen["c1"][n])[TOMBSTONE_KEY].v = TRUE
       /\ Val(seen["c1"][n])[TOMBSTONE_KEY].t = call["c1"].timestamp

\* the setter's deviceId is lexicographically greater than the deviceId of
\* every tombstone read
SetterIdGreater ==
  \A n \in RecordsRead :
    StrGreater(DeviceIdOf(call["c1"].inst), Val(seen["c1"][n])[TOMBSTONE_KEY].d)

\* C38: when a set carries exactly the timestamp of a stored tombstone with
\* value true, revival is decided by deviceId alone: the record is visible
\* after the set iff the setter's deviceId is lexicographically greater than
\* the tombstone's; a delete followed by a set of the same device at the
\* same timestamp leaves the record deleted.
SameTimeRevivalByDeviceId ==
  SetOnSameTimeTombstone =>
    /\ IsDefined(GetReturns(call["c1"].inst, "key")) <=> SetterIdGreater
    /\ \A s \in StoresOf(call["c1"].inst) :
         IsTombstoned(data[s]["key"]) <=> ~SetterIdGreater

\* C38 witness: a delete and then a set by the same device at the same
\* timestamp; the record is still deleted
SameWriterSameTimeStaysDeleted ==
  /\ SetOnSameTimeTombstone
  /\ Len(history) >= 2
  /\ history[Len(history) - 1].op = "delete" /\ history[Len(history) - 1].ok
  /\ history[Len(history) - 1].inst = call["c1"].inst
  /\ history[Len(history) - 1].timestamp = call["c1"].timestamp
  /\ \E f \in DOMAIN call["c1"].updates : TRUE
  /\ GetReturns(call["c1"].inst, "key") = Undefined

\* ------------------------------------------------- has against isDeleted
\* some store of instance i holds a record for the key
SomeStoreHolds(i) == \E s \in StoresOf(i) : "key" \in DOMAIN data[s]

\* the answers h of has and d of isDeleted are never both true; exactly one
\* is true when a record is held, none when no record is held
ExactlyOneWhenHeld(h, d, held) ==
  /\ ~(h /\ d)
  /\ held => (h # d)
  /\ ~held => (~h /\ ~d)

\* the call of slot c1 returns from op in this step
ReturnsFrom(op) ==
  call["c1"].op = op /\ call["c1"].pc = "reading" /\ call'["c1"].pc = "done"

\* C39: has and isDeleted on the same store contents are never both true;
\* exactly one of them is true when some store holds a record for the key,
\* and both are false when none does.
HasExcludesIsDeleted ==
  /\ [](\A i \in Instances :
         ExactlyOneWhenHeld(HasReturns(i, "key"), IsDeletedReturns(i, "key"),
                            SomeStoreHolds(i)))
  /\ [][ReturnsFrom("has") =>
          ExactlyOneWhenHeld(call'["c1"].retBool,
                             IsDeletedReturns(call["c1"].inst, "key"),
                             SomeStoreHolds(call["c1"].inst))]_vars
  /\ [][ReturnsFrom("isDeleted") =>
          ExactlyOneWhenHeld(HasReturns(call["c1"].inst, "key"),
                             call'["c1"].retBool,
                             SomeStoreHolds(call["c1"].inst))]_vars

\* C39 witness: isDeleted has returned true from the device's cache, has
\* answers false on the same contents, and the shared store holds a record
\* that is not tombstoned
DeletedInCacheLiveInShared ==
  /\ Returned("mobile", "isDeleted")
  /\ call["c1"].retBool
  /\ ~HasReturns("mobile", "key")
  /\ NumStores("mobile") = 2
  /\ IsDefined(StoreGet("sharedRemote", "key"))
  /\ ~IsTombstoned(Val(StoreGet("sharedRemote", "key")))

\* ------------------------------------ one store against the single-store class
\* the multi-store call and the single-store call have both returned
BothReturned == call["c1"].pc = "done" /\ call["c2"].pc = "done"

\* C40: the multi-store implementation constructed with exactly one store is
\* equivalent to the single-store implementation: after every sequence of
\* get, set, delete, hardDelete, has, isDeleted and getRaw calls, made on
\* both, each call has returned the same result and the stores hold the same
\* contents.
OneStoreEquivalentToSingleStore ==
  Quiescent =>
    /\ data["sharedRemote"] = data[SingleStore]
    /\ call["c1"].ret = call["c2"].ret
    /\ call["c1"].retBool = call["c2"].retBool

\* C40 witness: after a delete and a revival, get has returned the same
\* record from both implementations, from stores with the same contents
BothGotRevivedRecord ==
  /\ BothReturned
  /\ call["c1"].op = "get" /\ call["c2"].op = "get"
  /\ ops = MaxOps
  /\ IsDefined(call["c1"].ret) /\ call["c2"].ret = call["c1"].ret
  /\ DOMAIN Val(call["c1"].ret) # {}
  /\ "key" \in DOMAIN data[SingleStore]
  /\ data[SingleStore]["key"][TOMBSTONE_KEY].t > 1
  /\ data["sharedRemote"] = data[SingleStore]


====
